---- MODULE Spec2Model ----
(***************************************************************************)
(* State-machine model of the lab3 e-store: the inventory store            *)
(* (src/lab3/EStore.cpp) under its coarse and its fine locking discipline, *)
(* the task queue (src/lab3/TaskQueue.cpp) and the worker pool             *)
(* (src/lab3/estoresim.cpp, src/lab3/RequestHandlers.cpp).                 *)
(*                                                                         *)
(* One step of a thread is one synchronisation operation (lock, unlock,    *)
(* wait, broadcast) or the block of statements between two of them.        *)
(* Money is kept exact: prices, shipping and budgets are integers,         *)
(* discounts are percentages, and a cost is compared scaled by 100*100.    *)
(***************************************************************************)
EXTENDS Integers, Sequences, FiniteSets, TLC

\* ------------------------------------------------------------------ bounds
INVENTORY_SIZE == 2
MaxIds == 2
MaxCalls == 1
\* the wake-ups without a signal that one call may suffer
MaxSpurious == 1
\* the real tasks each generator enqueues
maxTasks == 1

\* ----------------------------------------------------------------- domains
Ids == 0..(INVENTORY_SIZE - 1)
ArgIds == -1..INVENTORY_SIZE
Buyers == {"customer1", "customer2"}
AdminT == "supplier"
Threads == Buyers \cup {AdminT}
NoThread == "nobody"

\* the two task queues of the Simulation, their generators and their workers
Queues == {"supplierTasks", "customerTasks"}
Gens == {"supplierGenerator", "customerGenerator"}
SupplierTids == <<"supplier">>
CustomerTids == <<"customer1", "customer2">>
GenTids == <<"supplierGenerator", "customerGenerator">>

Scale == 100 * 100

\* every request list of at most MaxIds ids drawn from I
ListsOver(I) == UNION {[1..n -> I] : n \in 0..MaxIds}

VARIABLES
    fineMode,       \* EStore::fineMode
    inventory,      \* EStore::inventory[INVENTORY_SIZE]
    shippingCost,   \* EStore::shippingCost
    storeDiscount,  \* EStore::storeDiscount (percent)
    mtx,            \* EStore::mtx, its owner or NoThread
    global_mtx,     \* EStore::global_mtx
    item_mtx,       \* EStore::item_mtx[i]
    item_cv,        \* EStore::item_cv[i]: the threads sleeping on it
    item_cv_fine,   \* EStore::item_cv_fine[i]
    pc,             \* each thread's position inside its store call
    op,             \* each thread's current call and its arguments
    loc,            \* each thread's local variables
    calls,          \* number of store calls each thread may still start
    hist,           \* history of each thread's current/last call (see NoHist)
    ret,            \* how each thread's last call ended
    q,              \* TaskQueue::q of each of the two queues
    qmtx,           \* TaskQueue::mtx, its owner or NoThread
    not_empty,      \* TaskQueue::not_empty: the workers sleeping on it
    worker,         \* each worker's position in its loop and the task in hand
    gen,            \* each generator's position and what it has enqueued
    driver,         \* the position of startSimulation in DriverPlan
    executed,       \* per queue, the real tasks whose handler has returned
    log             \* per queue, the tasks pushed and the tasks returned, in order

storeVars == <<fineMode, inventory, shippingCost, storeDiscount>>
lockVars == <<mtx, global_mtx, item_mtx>>
cvVars == <<item_cv, item_cv_fine>>
threadVars == <<pc, op, loc, calls, hist, ret>>
simVars == <<q, qmtx, not_empty, worker, gen, driver, executed, log>>
vars == <<fineMode, inventory, shippingCost, storeDiscount, mtx, global_mtx,
          item_mtx, item_cv, item_cv_fine, pc, op, loc, calls, hist, ret,
          q, qmtx, not_empty, worker, gen, driver, executed, log>>

\* ------------------------------------------------------------ pure helpers
\* Item::Item() : valid(false); the other fields carry no meaning until addItem
NoItem == [valid |-> FALSE, quantity |-> 0, price |-> 0, discount |-> 0]
StockedItem(qty, p, d) ==
    [valid |-> TRUE, quantity |-> qty, price |-> p, discount |-> d]

NoOp == [name |-> "none", id |-> 0, n |-> 0, v |-> 0, d |-> 0, budget |-> 0, ids |-> <<>>]
NoLoc == [ids |-> <<>>, shipSnap |-> 0, discSnap |-> 0, ok |-> FALSE, i |-> 0,
          flag |-> FALSE, woken |-> FALSE, carried |-> FALSE]
NoDec == [i \in Ids |-> 0]
\* dec: per id, the decrements the call has made; orphaned: the call was
\* blocked in buyItem when removeItem took its slot away; readded: addItem
\* made the slot carried again before the orphaned call looked at it;
\* spurious: the wake-ups without a signal the call has had
NoHist == [dec |-> NoDec, orphaned |-> FALSE, readded |-> FALSE, spurious |-> 0]

\* the range check without its lower bound
InRangeNoLower(id) == id < INVENTORY_SIZE

InRange(id) == 0 <= id /\ id < INVENTORY_SIZE

\* price*(1-discount)*(1-storeDiscount)+shippingCost, scaled by Scale
ScaledCost(price, discount, sdisc, ship) ==
    price * (100 - discount) * (100 - sdisc) + ship * Scale

\* EStore::totalCost_nolock(it): the cost from the current store-wide parameters
totalCost_nolock(it) == ScaledCost(it.price, it.discount, storeDiscount, shippingCost)

Range(s) == {s[k] : k \in 1..Len(s)}

\* the in-range ids of the request, in the order listed (push_back loop)
FilterIds(s) == SelectSeq(s, InRange)

RECURSIVE SortSet(_)
SortSet(S) ==
    IF S = {} THEN <<>>
    ELSE LET m == CHOOSE x \in S : \A y \in S : x <= y
         IN <<m>> \o SortSet(S \ {m})

\* std::sort alone: ascending, an id as often as it is listed
RECURSIVE SortOnly(_)
SortOnly(s) ==
    IF s = <<>> THEN <<>>
    ELSE LET m == CHOOSE x \in Range(s) : \A y \in Range(s) : x <= y
         IN SelectSeq(s, LAMBDA x : x = m) \o SortOnly(SelectSeq(s, LAMBDA x : x # m))

\* std::sort followed by erase(unique): ascending, each id once
SortUnique(s) == SortSet(Range(s))

\* smutex_unlock by thread t of a mutex whose owner is o.  Unlocking a mutex
\* the caller does not hold is undefined: it either leaves the mutex alone or
\* releases it from under its owner.
\* an unlock that leaves the mutex with its owner
UnlockKeeps(o, t) == {o}

UnlockOutcomes(o, t) == IF o = t THEN {NoThread} ELSE {NoThread, o}


\* ------------------------------------------------------- thread bookkeeping
\* assert() failure aborts the process: nothing runs afterwards
Alive == \A u \in Threads : pc[u] # "aborted"
At(t, label) == pc[t] = label /\ Alive
CanCall(t) == At(t, "idle") /\ calls[t] > 0

Result(how, val) == [how |-> how, q |-> val]

\* a call starts: record it, clear the locals and the per-call ghost counters
EnterWith(t, o, label, l) ==
    /\ pc' = [pc EXCEPT ![t] = label]
    /\ op' = [op EXCEPT ![t] = o]
    /\ loc' = [loc EXCEPT ![t] = l]
    /\ calls' = [calls EXCEPT ![t] = @ - 1]
    /\ hist' = [hist EXCEPT ![t] = NoHist]
    /\ ret' = [ret EXCEPT ![t] = Result("running", 0)]

Enter(t, o, label) == EnterWith(t, o, label, NoLoc)

\* a call that returns at once, before it takes any lock
ReturnAtOnce(t, o, how) ==
    /\ pc' = pc
    /\ op' = [op EXCEPT ![t] = o]
    /\ loc' = [loc EXCEPT ![t] = NoLoc]
    /\ calls' = [calls EXCEPT ![t] = @ - 1]
    /\ hist' = [hist EXCEPT ![t] = NoHist]
    /\ ret' = [ret EXCEPT ![t] = Result(how, 0)]

Goto(t, label) == pc' = [pc EXCEPT ![t] = label]

\* the mutex that guards slot id in the store's mode
HoldsSlotLock(t, id) == IF fineMode THEN item_mtx[id] = t ELSE mtx = t

\* scond_broadcast: every sleeper of the condition variable is made runnable
Broadcast(cv, id) == [cv EXCEPT ![id] = {}]

\* ------------------------------------------------ single-item administration
\* the range check that opens addItem, removeItem, addStock, priceItem,
\* discountItem and getItemQuantity
CallItemOp(t, o) ==
    /\ CanCall(t)
    /\ UNCHANGED simVars
    /\ UNCHANGED <<storeVars, lockVars, cvVars>>
    /\ IF InRange(o.id) THEN Enter(t, o, "lock") ELSE ReturnAtOnce(t, o, "range")

CallAddItem(t, I, Q, P, D) ==
    \E id \in I, qty \in Q, p \in P, d \in D :
        CallItemOp(t, [NoOp EXCEPT !.name = "addItem", !.id = id, !.n = qty,
                                   !.v = p, !.d = d])

CallRemoveItem(t, I) ==
    \E id \in I : CallItemOp(t, [NoOp EXCEPT !.name = "removeItem", !.id = id])

CallAddStock(t, I, C) ==
    \E id \in I, c \in C :
        CallItemOp(t, [NoOp EXCEPT !.name = "addStock", !.id = id, !.n = c])

CallPriceItem(t, I, P) ==
    \E id \in I, p \in P :
        CallItemOp(t, [NoOp EXCEPT !.name = "priceItem", !.id = id, !.v = p])

CallDiscountItem(t, I, D) ==
    \E id \in I, d \in D :
        CallItemOp(t, [NoOp EXCEPT !.name = "discountItem", !.id = id, !.v = d])

CallGetItemQuantity(t, I) ==
    \E id \in I : CallItemOp(t, [NoOp EXCEPT !.name = "getItemQuantity", !.id = id])

\* smutex_lock(&mtx) or smutex_lock(&item_mtx[item_id])
ItemLock(t) ==
    /\ At(t, "lock")
    /\ UNCHANGED simVars
    /\ IF fineMode
         THEN /\ item_mtx[op[t].id] = NoThread
              /\ item_mtx' = [item_mtx EXCEPT ![op[t].id] = t]
              /\ UNCHANGED <<mtx, global_mtx>>
         ELSE /\ mtx = NoThread
              /\ mtx' = t
              /\ UNCHANGED <<global_mtx, item_mtx>>
    /\ Goto(t, IF op[t].name = "getItemQuantity" THEN "cs" ELSE "test")
    /\ UNCHANGED <<storeVars, cvVars, op, loc, calls, hist, ret>>

\* Item &it = inventory[item_id]; if (it.valid ...): a mutator reads the
\* slot's valid flag before it writes the slot
ItemTest(t) ==
    /\ At(t, "test")
    /\ UNCHANGED simVars
    /\ loc' = [loc EXCEPT ![t].carried = inventory[op[t].id].valid]
    /\ Goto(t, "cs")
    /\ UNCHANGED <<storeVars, lockVars, cvVars, op, calls, hist, ret>>

\* the slot as the mutator sees it: the fields as they are now, the valid
\* flag as the test read it
Seen(t) == [inventory[op[t].id] EXCEPT !.valid = loc[t].carried]

\* the slot after the body of each operation, and whether the body broadcasts
AddItemSlot(it, o) == IF ~it.valid THEN StockedItem(o.n, o.v, o.d) ELSE it
AddItemWakes(it, o) == ~it.valid

\* the removal that never wakes the sleepers
RemoveItemSilent(it, o) == FALSE

\* the restocking that never wakes the sleepers
AddStockSilent(it, o) == FALSE

\* the comparison of priceItem the wrong way round
PriceItemWakesOnRise(it, o) == it.valid /\ o.v > it.price

RemoveItemSlot(it, o) == IF it.valid THEN [it EXCEPT !.valid = FALSE] ELSE it
RemoveItemWakes(it, o) == it.valid

AddStockSlot(it, o) ==
    IF it.valid /\ o.n > 0 THEN [it EXCEPT !.quantity = @ + o.n] ELSE it
AddStockWakes(it, o) == it.valid /\ o.n > 0

PriceItemSlot(it, o) == IF it.valid THEN [it EXCEPT !.price = o.v] ELSE it
PriceItemWakes(it, o) == it.valid /\ o.v < it.price

DiscountItemSlot(it, o) == IF it.valid THEN [it EXCEPT !.discount = o.v] ELSE it
DiscountItemWakes(it, o) == it.valid /\ o.v > it.discount

\* thread u is inside buyItem(id), asleep or woken, and has not yet looked at
\* the slot again
BlockedOn(u, id) ==
    /\ op[u].name = "buyItem"
    /\ op[u].id = id
    /\ pc[u] = "bi_wait" \/ (pc[u] = "bi_loop" /\ loc[u].woken)

\* the slot once the mutator has stored slot, which it worked out from what
\* it saw: the valid flag is written only where the mutator changes it
Written(t, slot) ==
    [slot EXCEPT !.valid = IF slot.valid = loc[t].carried
                             THEN inventory[op[t].id].valid ELSE slot.valid]

\* the guarded block of a single-item mutator; a mutator whose test failed
\* writes nothing
ItemBody(t, name, slot, wakes) ==
    /\ At(t, "cs")
    /\ UNCHANGED simVars
    /\ op[t].name = name
    /\ inventory' = [inventory EXCEPT ![op[t].id] = Written(t, slot)]
    /\ IF wakes
         THEN IF fineMode
                THEN /\ item_cv_fine' = Broadcast(item_cv_fine, op[t].id)
                     /\ UNCHANGED item_cv
                ELSE /\ item_cv' = Broadcast(item_cv, op[t].id)
                     /\ UNCHANGED item_cv_fine
         ELSE UNCHANGED cvVars
    /\ Goto(t, "unlock")
    /\ ret' = [ret EXCEPT ![t] = Result("done", 0)]
    /\ hist' = [u \in Threads |->
                 IF BlockedOn(u, op[t].id)
                      /\ inventory'[op[t].id].valid # inventory[op[t].id].valid
                   THEN IF inventory'[op[t].id].valid
                          THEN [hist[u] EXCEPT !.readded = hist[u].orphaned]
                          ELSE [hist[u] EXCEPT !.orphaned = TRUE]
                   ELSE hist[u]]
    /\ loc' = [loc EXCEPT ![t].carried = FALSE]
    /\ UNCHANGED <<fineMode, shippingCost, storeDiscount, lockVars, op, calls>>

AddItemBody(t) ==
    ItemBody(t, "addItem", AddItemSlot(Seen(t), op[t]),
             AddItemWakes(Seen(t), op[t]))

RemoveItemBody(t) ==
    ItemBody(t, "removeItem", RemoveItemSlot(Seen(t), op[t]),
             RemoveItemWakes(Seen(t), op[t]))

AddStockBody(t) ==
    ItemBody(t, "addStock", AddStockSlot(Seen(t), op[t]),
             AddStockWakes(Seen(t), op[t]))

PriceItemBody(t) ==
    ItemBody(t, "priceItem", PriceItemSlot(Seen(t), op[t]),
             PriceItemWakes(Seen(t), op[t]))

DiscountItemBody(t) ==
    ItemBody(t, "discountItem", DiscountItemSlot(Seen(t), op[t]),
             DiscountItemWakes(Seen(t), op[t]))

\* int q = (inventory[item_id].valid ? inventory[item_id].quantity : 0)
QuantityOf(it) == IF it.valid THEN it.quantity ELSE 0

GetItemQuantityBody(t) ==
    /\ At(t, "cs")
    /\ UNCHANGED simVars
    /\ op[t].name = "getItemQuantity"
    /\ ret' = [ret EXCEPT ![t] = Result("done", QuantityOf(inventory[op[t].id]))]
    /\ Goto(t, "unlock")
    /\ UNCHANGED <<storeVars, lockVars, cvVars, op, loc, calls, hist>>

\* smutex_unlock(&mtx) or smutex_unlock(&item_mtx[item_id]), then return
ItemUnlock(t) ==
    /\ At(t, "unlock")
    /\ UNCHANGED simVars
    /\ IF fineMode
         THEN /\ \E o \in UnlockOutcomes(item_mtx[op[t].id], t) :
                    item_mtx' = [item_mtx EXCEPT ![op[t].id] = o]
              /\ UNCHANGED <<mtx, global_mtx>>
         ELSE /\ \E o \in UnlockOutcomes(mtx, t) : mtx' = o
              /\ UNCHANGED <<global_mtx, item_mtx>>
    /\ Goto(t, "idle")
    /\ UNCHANGED <<storeVars, cvVars, op, loc, calls, hist, ret>>


\* ------------------------------------------------------------------ buyItem
\* the purchase predicate of buyItem, line 97
CanBuy(it, budget) == it.quantity > 0 /\ totalCost_nolock(it) <= budget * Scale

\* the loop condition of buyItem, line 93
KeepsWaiting(it) == it.valid

\* assert(!fineModeEnabled()), the range check, then on to smutex_lock(&mtx)
CallBuyItem(t, I, B) ==
    \E id \in I, b \in B :
        LET o == [NoOp EXCEPT !.name = "buyItem", !.id = id, !.budget = b] IN
        /\ CanCall(t)
        /\ UNCHANGED simVars
        /\ UNCHANGED <<storeVars, lockVars, cvVars>>
        /\ IF fineMode
             THEN /\ Enter(t, o, "aborted")
             ELSE IF InRange(id) THEN Enter(t, o, "bi_lock")
                  ELSE ReturnAtOnce(t, o, "range")

BuyItemLock(t) ==
    /\ At(t, "bi_lock")
    /\ UNCHANGED simVars
    /\ mtx = NoThread
    /\ mtx' = t
    /\ Goto(t, "bi_carried")
    /\ UNCHANGED <<storeVars, global_mtx, item_mtx, cvVars, op, loc, calls, hist, ret>>

\* if (!inventory[item_id].valid) { unlock; return; }
BuyItemCarried(t) ==
    /\ At(t, "bi_carried")
    /\ UNCHANGED simVars
    /\ IF inventory[op[t].id].valid
         THEN /\ Goto(t, "bi_loop")
              /\ UNCHANGED ret
         ELSE /\ Goto(t, "bi_unlock")
              /\ ret' = [ret EXCEPT ![t] = Result("notcarried", 0)]
    /\ UNCHANGED <<storeVars, lockVars, cvVars, op, loc, calls, hist>>

\* one evaluation of the while condition and of the purchase test
BuyItemLoop(t) ==
    /\ At(t, "bi_loop")
    /\ UNCHANGED simVars
    /\ LET it == inventory[op[t].id] IN
       IF ~KeepsWaiting(it)
         THEN /\ Goto(t, "bi_unlock")
              /\ ret' = [ret EXCEPT ![t] = Result("removed", 0)]
         ELSE /\ Goto(t, IF CanBuy(it, op[t].budget) THEN "bi_dec" ELSE "bi_sleep")
              /\ UNCHANGED ret
    /\ loc' = [loc EXCEPT ![t].woken = FALSE]
    /\ UNCHANGED <<storeVars, lockVars, cvVars, op, calls, hist>>

\* the first half of scond_wait(&item_cv[item_id], &mtx): the caller joins the
\* sleepers of the condition variable and releases mtx
BuyItemSleep(t) ==
    /\ At(t, "bi_sleep")
    /\ UNCHANGED simVars
    /\ item_cv' = [item_cv EXCEPT ![op[t].id] = @ \cup {t}]
    /\ \E o \in UnlockOutcomes(mtx, t) : mtx' = o
    /\ Goto(t, "bi_wait")
    /\ UNCHANGED <<storeVars, global_mtx, item_mtx, item_cv_fine, op, loc, calls, hist, ret>>

\* it.quantity -= 1
BuyItemDecrement(t) ==
    /\ At(t, "bi_dec")
    /\ UNCHANGED simVars
    /\ inventory' = [inventory EXCEPT ![op[t].id].quantity = @ - 1]
    /\ hist' = [hist EXCEPT ![t].dec[op[t].id] = @ + 1]
    /\ ret' = [ret EXCEPT ![t] = Result("bought", 0)]
    /\ Goto(t, "bi_unlock")
    /\ UNCHANGED <<fineMode, shippingCost, storeDiscount, lockVars, cvVars, op, loc, calls>>

\* the second half of scond_wait: woken, the caller takes mtx again
BuyItemWake(t) ==
    /\ At(t, "bi_wait")
    /\ UNCHANGED simVars
    /\ t \notin item_cv[op[t].id]
    /\ mtx = NoThread
    /\ mtx' = t
    /\ loc' = [loc EXCEPT ![t].woken = TRUE]
    /\ Goto(t, "bi_loop")
    /\ UNCHANGED <<storeVars, global_mtx, item_mtx, cvVars, op, calls, hist, ret>>

\* a condition variable may wake a sleeper although nobody signalled it
SpuriousWake(t) ==
    /\ At(t, "bi_wait")
    /\ UNCHANGED simVars
    /\ t \in item_cv[op[t].id]
    /\ hist[t].spurious < MaxSpurious
    /\ item_cv' = [item_cv EXCEPT ![op[t].id] = @ \ {t}]
    /\ hist' = [hist EXCEPT ![t].spurious = @ + 1]
    /\ UNCHANGED <<storeVars, lockVars, item_cv_fine, pc, op, loc, calls, ret>>

\* a buyItem that returns without its smutex_unlock(&mtx)
BuyItemReturnsLocked(t) ==
    /\ At(t, "bi_unlock")
    /\ UNCHANGED simVars
    /\ Goto(t, "idle")
    /\ UNCHANGED <<storeVars, lockVars, cvVars, op, loc, calls, hist, ret>>

\* smutex_unlock(&mtx); return; on each of the three ways out of buyItem
BuyItemUnlock(t) ==
    /\ At(t, "bi_unlock")
    /\ UNCHANGED simVars
    /\ \E o \in UnlockOutcomes(mtx, t) : mtx' = o
    /\ Goto(t, "idle")
    /\ UNCHANGED <<storeVars, global_mtx, item_mtx, cvVars, op, loc, calls, hist, ret>>

\* ------------------------------------------------------------- buyManyItems
\* the in-range ids in the order listed: the sort and the unique left out
UnsortedIds(s) == FilterIds(s)

\* an order that takes the mutex of every slot of the store
EveryId(s) == SortSet(Ids)

\* the ids whose mutexes the order takes, in the order it takes them
OrderIds(s) == SortUnique(FilterIds(s))

\* the order's total against the budget alone: the slot checks left out
TotalOnlyOk(inv, ids, ship, sdisc, budget) ==
    LET cost(k) == ScaledCost(inv[ids[k]].price, inv[ids[k]].discount, sdisc, ship)
        sum[k \in 0..Len(ids)] == IF k = 0 THEN 0 ELSE sum[k - 1] + cost(k)
    IN sum[Len(ids)] <= budget * Scale

\* the verification walk of lines 181-191 from position k with running total
\* tot: TRUE iff no id from k on fails
RECURSIVE WalkOk(_, _, _, _, _, _, _)
WalkOk(inv, ids, k, tot, ship, sdisc, budget) ==
    IF k > Len(ids) THEN TRUE
    ELSE LET it == inv[ids[k]]
             cost == ScaledCost(it.price, it.discount, sdisc, ship)
         IN IF ~it.valid \/ it.quantity <= 0 THEN FALSE
            ELSE IF cost < 0 THEN FALSE
            ELSE IF tot + cost > budget * Scale THEN FALSE
            ELSE WalkOk(inv, ids, k + 1, tot + cost, ship, sdisc, budget)

OrderOk(inv, ids, ship, sdisc, budget) == WalkOk(inv, ids, 1, 0, ship, sdisc, budget)

\* assert(fineModeEnabled()), the empty checks, the filter, sort and unique
CallBuyManyItems(t, L, B) ==
    \E l \in L, b \in B :
        LET o == [NoOp EXCEPT !.name = "buyManyItems", !.ids = l, !.budget = b] IN
        /\ CanCall(t)
        /\ UNCHANGED simVars
        /\ UNCHANGED <<storeVars, lockVars, cvVars>>
        /\ IF ~fineMode
             THEN Enter(t, o, "aborted")
             ELSE IF l = <<>> \/ FilterIds(l) = <<>>
                    THEN ReturnAtOnce(t, o, "empty")
                    ELSE EnterWith(t, o, "bm_glock", [NoLoc EXCEPT !.ids = OrderIds(l)])

BuyManyGlobalLock(t) ==
    /\ At(t, "bm_glock")
    /\ UNCHANGED simVars
    /\ global_mtx = NoThread
    /\ global_mtx' = t
    /\ Goto(t, "bm_snap")
    /\ UNCHANGED <<storeVars, mtx, item_mtx, cvVars, op, loc, calls, hist, ret>>

\* shipSnap = shippingCost; discSnap = storeDiscount
BuyManySnapshot(t) ==
    /\ At(t, "bm_snap")
    /\ UNCHANGED simVars
    /\ loc' = [loc EXCEPT ![t].shipSnap = shippingCost, ![t].discSnap = storeDiscount]
    /\ Goto(t, "bm_gunlock")
    /\ UNCHANGED <<storeVars, lockVars, cvVars, op, calls, hist, ret>>

BuyManyGlobalUnlock(t) ==
    /\ At(t, "bm_gunlock")
    /\ UNCHANGED simVars
    /\ \E o \in UnlockOutcomes(global_mtx, t) : global_mtx' = o
    /\ loc' = [loc EXCEPT ![t].i = 1]
    /\ Goto(t, "bm_lock")
    /\ UNCHANGED <<storeVars, mtx, item_mtx, cvVars, op, calls, hist, ret>>

\* for (int id : ids) smutex_lock(&item_mtx[id]): one iteration
BuyManyLock(t) ==
    /\ At(t, "bm_lock")
    /\ UNCHANGED simVars
    /\ LET id == loc[t].ids[loc[t].i] IN
       /\ item_mtx[id] = NoThread
       /\ item_mtx' = [item_mtx EXCEPT ![id] = t]
    /\ IF loc[t].i < Len(loc[t].ids)
         THEN /\ loc' = [loc EXCEPT ![t].i = @ + 1]
              /\ UNCHANGED pc
         ELSE /\ loc' = [loc EXCEPT ![t].i = 0]
              /\ Goto(t, "bm_check")
    /\ UNCHANGED <<storeVars, mtx, global_mtx, cvVars, op, calls, hist, ret>>

\* a verification loop that reads shippingCost and storeDiscount afresh
BuyManyCheckCurrent(t) ==
    /\ At(t, "bm_check")
    /\ UNCHANGED simVars
    /\ LET ok == OrderOk(inventory, loc[t].ids, shippingCost, storeDiscount,
                         op[t].budget)
       IN /\ loc' = [loc EXCEPT ![t].ok = ok,
                                ![t].i = IF ok THEN 1 ELSE Len(loc[t].ids)]
          /\ Goto(t, IF ok THEN "bm_commit" ELSE "bm_unlock")
          /\ ret' = [ret EXCEPT ![t] = Result(IF ok THEN "commit" ELSE "abort", 0)]
    /\ UNCHANGED <<storeVars, lockVars, cvVars, op, calls, hist>>

\* the verification loop, run with every lock of the order held
BuyManyCheck(t) ==
    /\ At(t, "bm_check")
    /\ UNCHANGED simVars
    /\ LET ok == OrderOk(inventory, loc[t].ids, loc[t].shipSnap, loc[t].discSnap,
                         op[t].budget)
       IN /\ loc' = [loc EXCEPT ![t].ok = ok,
                                ![t].i = IF ok THEN 1 ELSE Len(loc[t].ids)]
          /\ Goto(t, IF ok THEN "bm_commit" ELSE "bm_unlock")
          /\ ret' = [ret EXCEPT ![t] = Result(IF ok THEN "commit" ELSE "abort", 0)]
    /\ UNCHANGED <<storeVars, lockVars, cvVars, op, calls, hist>>

\* a commit loop that stops after its first iteration
BuyManyCommitFirst(t) ==
    /\ At(t, "bm_commit")
    /\ UNCHANGED simVars
    /\ LET id == loc[t].ids[loc[t].i] IN
       /\ inventory' = [inventory EXCEPT ![id].quantity = @ - 1]
       /\ hist' = [hist EXCEPT ![t].dec[id] = @ + 1]
    /\ loc' = [loc EXCEPT ![t].i = Len(loc[t].ids)]
    /\ Goto(t, "bm_unlock")
    /\ UNCHANGED <<fineMode, shippingCost, storeDiscount, lockVars, cvVars, op, calls, ret>>

\* for (int id : ids) inventory[id].quantity -= 1: one iteration
BuyManyCommit(t) ==
    /\ At(t, "bm_commit")
    /\ UNCHANGED simVars
    /\ LET id == loc[t].ids[loc[t].i] IN
       /\ inventory' = [inventory EXCEPT ![id].quantity = @ - 1]
       /\ hist' = [hist EXCEPT ![t].dec[id] = @ + 1]
    /\ IF loc[t].i < Len(loc[t].ids)
         THEN /\ loc' = [loc EXCEPT ![t].i = @ + 1]
              /\ UNCHANGED pc
         ELSE /\ loc' = [loc EXCEPT ![t].i = Len(loc[t].ids)]
              /\ Goto(t, "bm_unlock")
    /\ UNCHANGED <<fineMode, shippingCost, storeDiscount, lockVars, cvVars, op, calls, ret>>

\* a release loop that runs from the first id of the order to the last
BuyManyUnlockAscending(t) ==
    /\ At(t, "bm_unlock")
    /\ UNCHANGED simVars
    /\ LET id == loc[t].ids[Len(loc[t].ids) - loc[t].i + 1] IN
       \E o \in UnlockOutcomes(item_mtx[id], t) :
           item_mtx' = [item_mtx EXCEPT ![id] = o]
    /\ IF loc[t].i > 1
         THEN /\ loc' = [loc EXCEPT ![t].i = @ - 1]
              /\ UNCHANGED pc
         ELSE /\ loc' = [loc EXCEPT ![t].i = 0]
              /\ Goto(t, "idle")
    /\ UNCHANGED <<storeVars, mtx, global_mtx, cvVars, op, calls, hist, ret>>

\* for (i = size-1; i >= 0; --i) smutex_unlock(&item_mtx[ids[i]]): one iteration
BuyManyUnlock(t) ==
    /\ At(t, "bm_unlock")
    /\ UNCHANGED simVars
    /\ LET id == loc[t].ids[loc[t].i] IN
       \E o \in UnlockOutcomes(item_mtx[id], t) :
           item_mtx' = [item_mtx EXCEPT ![id] = o]
    /\ IF loc[t].i > 1
         THEN /\ loc' = [loc EXCEPT ![t].i = @ - 1]
              /\ UNCHANGED pc
         ELSE /\ loc' = [loc EXCEPT ![t].i = 0]
              /\ Goto(t, "idle")
    /\ UNCHANGED <<storeVars, mtx, global_mtx, cvVars, op, calls, hist, ret>>


\* ------------------------------------------ setShippingCost, setStoreDiscount
CallSetShippingCost(t, C) ==
    \E c \in C :
        /\ CanCall(t)
        /\ UNCHANGED simVars
        /\ UNCHANGED <<storeVars, lockVars, cvVars>>
        /\ Enter(t, [NoOp EXCEPT !.name = "setShippingCost", !.v = c],
                 IF fineMode THEN "st_glock" ELSE "st_lock")

CallSetStoreDiscount(t, D) ==
    \E d \in D :
        /\ CanCall(t)
        /\ UNCHANGED simVars
        /\ UNCHANGED <<storeVars, lockVars, cvVars>>
        /\ Enter(t, [NoOp EXCEPT !.name = "setStoreDiscount", !.v = d],
                 IF fineMode THEN "st_glock" ELSE "st_lock")

\* bool decreased = (cost < shippingCost); bool increased = (discount > storeDiscount)
SetterWakes(o) ==
    IF o.name = "setShippingCost" THEN o.v < shippingCost ELSE o.v > storeDiscount

\* the assignment of the setter to the parameter it sets
SetterAssign(t) ==
    IF op[t].name = "setShippingCost"
      THEN shippingCost' = op[t].v /\ UNCHANGED storeDiscount
      ELSE storeDiscount' = op[t].v /\ UNCHANGED shippingCost

\* coarse branch: smutex_lock(&mtx)
SetterLock(t) ==
    /\ At(t, "st_lock")
    /\ UNCHANGED simVars
    /\ mtx = NoThread
    /\ mtx' = t
    /\ Goto(t, "st_cs")
    /\ UNCHANGED <<storeVars, global_mtx, item_mtx, cvVars, op, loc, calls, hist, ret>>

\* coarse branch: compare, assign, broadcast on every item's condition variable
SetterBody(t) ==
    /\ At(t, "st_cs")
    /\ UNCHANGED simVars
    /\ SetterAssign(t)
    /\ IF SetterWakes(op[t])
         THEN item_cv' = [i \in Ids |-> {}]
         ELSE UNCHANGED item_cv
    /\ loc' = [loc EXCEPT ![t].flag = SetterWakes(op[t])]
    /\ ret' = [ret EXCEPT ![t] = Result("done", 0)]
    /\ Goto(t, "st_unlock")
    /\ UNCHANGED <<fineMode, inventory, lockVars, item_cv_fine, op, calls, hist>>

\* coarse branch: smutex_unlock(&mtx), line 405 / 446
SetterUnlock(t) ==
    /\ At(t, "st_unlock")
    /\ UNCHANGED simVars
    /\ \E o \in UnlockOutcomes(mtx, t) : mtx' = o
    /\ Goto(t, "st_last")
    /\ UNCHANGED <<storeVars, global_mtx, item_mtx, cvVars, op, loc, calls, hist, ret>>

\* fine branch: smutex_lock(&global_mtx)
SetterGlobalLock(t) ==
    /\ At(t, "st_glock")
    /\ UNCHANGED simVars
    /\ global_mtx = NoThread
    /\ global_mtx' = t
    /\ Goto(t, "st_gcs")
    /\ UNCHANGED <<storeVars, mtx, item_mtx, cvVars, op, loc, calls, hist, ret>>

\* fine branch: compare and assign under global_mtx
SetterGlobalBody(t) ==
    /\ At(t, "st_gcs")
    /\ UNCHANGED simVars
    /\ SetterAssign(t)
    /\ loc' = [loc EXCEPT ![t].flag = SetterWakes(op[t])]
    /\ ret' = [ret EXCEPT ![t] = Result("done", 0)]
    /\ Goto(t, "st_gunlock")
    /\ UNCHANGED <<fineMode, inventory, lockVars, cvVars, op, calls, hist>>

\* a setter that goes on to its wake-up loop with global_mtx still locked
SetterGlobalKeeps(t) ==
    /\ At(t, "st_gunlock")
    /\ UNCHANGED simVars
    /\ Goto(t, IF loc[t].flag THEN "st_ilock" ELSE "st_last")
    /\ UNCHANGED <<storeVars, lockVars, cvVars, op, loc, calls, hist, ret>>

\* fine branch: smutex_unlock(&global_mtx), then into the wake-up loop or past it
SetterGlobalUnlock(t) ==
    /\ At(t, "st_gunlock")
    /\ UNCHANGED simVars
    /\ \E o \in UnlockOutcomes(global_mtx, t) : global_mtx' = o
    /\ Goto(t, IF loc[t].flag THEN "st_ilock" ELSE "st_last")
    /\ UNCHANGED <<storeVars, mtx, item_mtx, cvVars, op, loc, calls, hist, ret>>

\* fine branch, wake-up loop: smutex_lock(&item_mtx[i])
SetterItemLock(t) ==
    /\ At(t, "st_ilock")
    /\ UNCHANGED simVars
    /\ item_mtx[loc[t].i] = NoThread
    /\ item_mtx' = [item_mtx EXCEPT ![loc[t].i] = t]
    /\ Goto(t, "st_ibcast")
    /\ UNCHANGED <<storeVars, mtx, global_mtx, cvVars, op, loc, calls, hist, ret>>

\* fine branch, wake-up loop: scond_broadcast(&item_cv_fine[i], &item_mtx[i])
SetterItemBroadcast(t) ==
    /\ At(t, "st_ibcast")
    /\ UNCHANGED simVars
    /\ item_cv_fine' = Broadcast(item_cv_fine, loc[t].i)
    /\ Goto(t, "st_iunlock")
    /\ UNCHANGED <<storeVars, lockVars, item_cv, op, loc, calls, hist, ret>>

\* fine branch, wake-up loop: smutex_unlock(&item_mtx[i]); ++i
SetterItemUnlock(t) ==
    /\ At(t, "st_iunlock")
    /\ UNCHANGED simVars
    /\ \E o \in UnlockOutcomes(item_mtx[loc[t].i], t) :
           item_mtx' = [item_mtx EXCEPT ![loc[t].i] = o]
    /\ IF loc[t].i + 1 < INVENTORY_SIZE
         THEN /\ loc' = [loc EXCEPT ![t].i = @ + 1]
              /\ Goto(t, "st_ilock")
         ELSE /\ loc' = [loc EXCEPT ![t].i = 0]
              /\ Goto(t, "st_last")
    /\ UNCHANGED <<storeVars, mtx, global_mtx, cvVars, op, calls, hist, ret>>

\* both branches: the closing smutex_unlock(&mtx) of line 421 / 461, executed
\* by a thread that no longer (coarse) or never (fine) holds mtx
SetterLastUnlock(t) ==
    /\ At(t, "st_last")
    /\ UNCHANGED simVars
    /\ \E o \in UnlockOutcomes(mtx, t) : mtx' = o
    /\ loc' = [loc EXCEPT ![t].flag = FALSE]
    /\ Goto(t, "idle")
    /\ UNCHANGED <<storeVars, global_mtx, item_mtx, cvVars, op, calls, hist, ret>>


\* ------------------------------------------------------ the task queues
NoTask == "none"

\* both generators constructed with the customers' queue
SharedQueue(g) == "customerTasks"

\* the queue a generator was constructed with, the queue a worker drains
OwnQueue(g) == IF g = "supplierGenerator" THEN "supplierTasks" ELSE "customerTasks"
QueueOfGen(g) == gen[g].queue
QueueOf(w) == IF w = AdminT THEN "supplierTasks" ELSE "customerTasks"
WorkersOf(Q) == {w \in Threads : QueueOf(w) = Q}

\* one stop too few
OneStopShort(Q) == Cardinality(WorkersOf(Q)) - 1

\* enqueueStops(sim->numSuppliers), enqueueStops(sim->numCustomers)
numStops(Q) == Cardinality(WorkersOf(Q))

\* an enqueue that signals nobody
NoSignal(Q) == not_empty' = not_empty

\* scond_signal: at most one sleeper leaves the condition variable
Signal(Q) ==
    IF not_empty[Q] = {}
      THEN not_empty' = not_empty
      ELSE \E w \in not_empty[Q] : not_empty' = [not_empty EXCEPT ![Q] = @ \ {w}]

GenAt(g, label) == gen[g].pc = label
GenGoto(g, label) == gen' = [gen EXCEPT ![g].pc = label]

\* what the generator enqueues next: maxTasks real tasks, then the stops
NextTask(g) ==
    [kind |-> IF gen[g].tasks < maxTasks THEN "task" ELSE "stop",
     by |-> g,
     n |-> gen[g].tasks + gen[g].stops + 1]

\* the deque turned round: push at the front, take from the back
PushFront(s, x) == <<x>> \o s
Back(s) == s[Len(s)]

\* std::deque: push_back, front, pop_front
PushBack(s, x) == Append(s, x)
Front(s) == Head(s)
PopFront(s) == Tail(s)

\* TaskQueue::enqueue, smutex_lock(&mtx)
EnqueueLock(g) ==
    LET Q == QueueOfGen(g) IN
    /\ GenAt(g, "enq_lock")
    /\ qmtx[Q] = NoThread
    /\ qmtx' = [qmtx EXCEPT ![Q] = g]
    /\ GenGoto(g, "enq_push")
    /\ UNCHANGED <<storeVars, lockVars, cvVars, threadVars, q, not_empty, worker,
                   driver, executed, log>>

\* q.push_back(task); scond_signal(&not_empty, &mtx); smutex_unlock(&mtx);
\* and back to the generator, which enqueues again or, through with
\* enqueueTasks and enqueueStops, leaves by sthread_exit()
EnqueuePush(g) ==
    LET Q == QueueOfGen(g)
        after == IF NextTask(g).kind = "task"
                   THEN [gen[g] EXCEPT !.tasks = @ + 1]
                   ELSE [gen[g] EXCEPT !.stops = @ + 1]
        sent == after.tasks = maxTasks /\ after.stops = numStops(Q)
    IN
    /\ GenAt(g, "enq_push")
    /\ q' = [q EXCEPT ![Q] = PushBack(@, NextTask(g))]
    /\ log' = [log EXCEPT ![Q].enq = Append(@, NextTask(g))]
    /\ Signal(Q)
    /\ qmtx' = [qmtx EXCEPT ![Q] = NoThread]
    /\ gen' = [gen EXCEPT ![g] =
                  [after EXCEPT !.pc = IF sent THEN "exited" ELSE "enq_lock"]]
    /\ UNCHANGED <<storeVars, lockVars, cvVars, threadVars, worker, driver, executed>>

WorkerAt(w, label) == worker[w].pc = label /\ Alive
WorkerGoto(w, label) == worker' = [worker EXCEPT ![w].pc = label]

\* TaskQueue::dequeue, smutex_lock(&mtx)
DequeueLock(w) ==
    LET Q == QueueOf(w) IN
    /\ WorkerAt(w, "dq_lock")
    /\ qmtx[Q] = NoThread
    /\ qmtx' = [qmtx EXCEPT ![Q] = w]
    /\ WorkerGoto(w, "dq_check")
    /\ UNCHANGED <<storeVars, lockVars, cvVars, threadVars, q, not_empty, gen,
                   driver, executed, log>>

\* while (q.empty()) scond_wait(&not_empty, &mtx)
DequeueWait(w) ==
    LET Q == QueueOf(w) IN
    /\ WorkerAt(w, "dq_check")
    /\ q[Q] = <<>>
    /\ not_empty' = [not_empty EXCEPT ![Q] = @ \cup {w}]
    /\ qmtx' = [qmtx EXCEPT ![Q] = NoThread]
    /\ WorkerGoto(w, "dq_wait")
    /\ UNCHANGED <<storeVars, lockVars, cvVars, threadVars, q, gen, driver, executed, log>>

\* the second half of scond_wait: signalled, the worker takes the mutex again
DequeueWake(w) ==
    LET Q == QueueOf(w) IN
    /\ WorkerAt(w, "dq_wait")
    /\ w \notin not_empty[Q]
    /\ qmtx[Q] = NoThread
    /\ qmtx' = [qmtx EXCEPT ![Q] = w]
    /\ WorkerGoto(w, "dq_check")
    /\ UNCHANGED <<storeVars, lockVars, cvVars, threadVars, q, not_empty, gen,
                   driver, executed, log>>

\* Task t = q.front(); q.pop_front(); smutex_unlock(&mtx); return t; and in
\* the worker if (t.handler == stop_handler) sthread_exit(); t.handler(t.arg):
\* the handler makes one call of the store
DequeueTake(w) ==
    LET Q == QueueOf(w) IN
    /\ WorkerAt(w, "dq_check")
    /\ q[Q] # <<>>
    /\ q' = [q EXCEPT ![Q] = PopFront(@)]
    /\ log' = [log EXCEPT ![Q].deq = Append(@, Front(q[Q]))]
    /\ qmtx' = [qmtx EXCEPT ![Q] = NoThread]
    /\ worker' = [worker EXCEPT ![w] =
                     [pc |-> IF Front(q[Q]).kind = "stop" THEN "exited" ELSE "run",
                      task |-> Front(q[Q]).kind]]
    /\ calls' = IF Front(q[Q]).kind = "stop" THEN calls ELSE [calls EXCEPT ![w] = 1]
    /\ UNCHANGED <<storeVars, lockVars, cvVars, pc, op, loc, hist, ret, not_empty,
                   gen, driver, executed>>

\* TaskQueue::size, smutex_lock(&mtx): called by a thread that is in no other
\* operation of the queue
SizeLock(w) ==
    LET Q == QueueOf(w) IN
    /\ WorkerAt(w, "dq_lock")
    /\ qmtx[Q] = NoThread
    /\ qmtx' = [qmtx EXCEPT ![Q] = w]
    /\ WorkerGoto(w, "sz_cs")
    /\ UNCHANGED <<storeVars, lockVars, cvVars, threadVars, q, not_empty, gen,
                   driver, executed, log>>

\* int n = q.size(); smutex_unlock(&mtx); return n;
SizeReturn(w) ==
    LET Q == QueueOf(w) IN
    /\ WorkerAt(w, "sz_cs")
    /\ ret' = [ret EXCEPT ![w] = Result("size", Len(q[Q]))]
    /\ qmtx' = [qmtx EXCEPT ![Q] = NoThread]
    /\ WorkerGoto(w, "dq_lock")
    /\ UNCHANGED <<storeVars, lockVars, cvVars, pc, op, loc, calls, hist, q,
                   not_empty, gen, driver, executed, log>>

\* TaskQueue::empty, smutex_lock(&mtx)
EmptyLock(w) ==
    LET Q == QueueOf(w) IN
    /\ WorkerAt(w, "dq_lock")
    /\ qmtx[Q] = NoThread
    /\ qmtx' = [qmtx EXCEPT ![Q] = w]
    /\ WorkerGoto(w, "em_cs")
    /\ UNCHANGED <<storeVars, lockVars, cvVars, threadVars, q, not_empty, gen,
                   driver, executed, log>>

\* bool e = q.empty(); smutex_unlock(&mtx); return e;
EmptyReturn(w) ==
    LET Q == QueueOf(w) IN
    /\ WorkerAt(w, "em_cs")
    /\ ret' = [ret EXCEPT ![w] = Result("empty", IF q[Q] = <<>> THEN 1 ELSE 0)]
    /\ qmtx' = [qmtx EXCEPT ![Q] = NoThread]
    /\ WorkerGoto(w, "dq_lock")
    /\ UNCHANGED <<storeVars, lockVars, cvVars, pc, op, loc, calls, hist, q,
                   not_empty, gen, driver, executed, log>>

\* the handler has returned: round the for (;;) loop again
WorkerReturn(w) ==
    /\ WorkerAt(w, "run")
    /\ pc[w] = "idle"
    /\ calls[w] = 0
    /\ worker' = [worker EXCEPT ![w] = [pc |-> "dq_lock", task |-> NoTask]]
    /\ executed' = [executed EXCEPT ![QueueOf(w)] = @ + 1]
    /\ UNCHANGED <<storeVars, lockVars, cvVars, threadVars, q, qmtx, not_empty, gen,
                   driver, log>>

\* ---------------------------------------------------------- startSimulation
Creates(s) == [k \in 1..Len(s) |-> [do |-> "create", who |-> s[k]]]
Joins(s) == [k \in 1..Len(s) |-> [do |-> "join", who |-> s[k]]]

\* a driver that starts the generators before the workers
GeneratorsFirst ==
    Creates(GenTids) \o Creates(SupplierTids) \o Creates(CustomerTids)
        \o Joins(GenTids) \o Joins(SupplierTids) \o Joins(CustomerTids)
        \o <<[do |-> "delete", who |-> "sim"]>>

\* what startSimulation does, in the order it does it
DriverPlan ==
    Creates(SupplierTids) \o Creates(CustomerTids) \o Creates(GenTids)
        \o Joins(GenTids) \o Joins(SupplierTids) \o Joins(CustomerTids)
        \o <<[do |-> "delete", who |-> "sim"]>>

DriverAt(what) == driver \in 1..Len(DriverPlan) /\ DriverPlan[driver].do = what /\ Alive

Exited(x) == IF x \in Gens THEN gen[x].pc = "exited" ELSE worker[x].pc = "exited"

\* sthread_create of a worker or of a generator
DriverCreate ==
    /\ DriverAt("create")
    /\ LET x == DriverPlan[driver].who IN
       IF x \in Gens
         THEN /\ gen' = [gen EXCEPT ![x].pc = "enq_lock"]
              /\ worker' = worker
         ELSE /\ worker' = [worker EXCEPT ![x].pc = "dq_lock"]
              /\ gen' = gen
    /\ driver' = driver + 1
    /\ UNCHANGED <<storeVars, lockVars, cvVars, threadVars, q, qmtx, not_empty,
                   executed, log>>

\* sthread_join returns once the thread has exited
DriverJoin ==
    /\ DriverAt("join")
    /\ Exited(DriverPlan[driver].who)
    /\ driver' = driver + 1
    /\ UNCHANGED <<storeVars, lockVars, cvVars, threadVars, q, qmtx, not_empty,
                   worker, gen, executed, log>>

\* delete sim; startSimulation returns
DriverDelete ==
    /\ DriverAt("delete")
    /\ driver' = driver + 1
    /\ UNCHANGED <<storeVars, lockVars, cvVars, threadVars, q, qmtx, not_empty,
                   worker, gen, executed, log>>

DriverDone == driver = Len(DriverPlan) + 1

\* a generator not yet created, constructed with queue Q
NoGen(Q) == [pc |-> "unborn", tasks |-> 0, stops |-> 0, queue |-> Q]
NoLog == [enq |-> <<>>, deq |-> <<>>]

\* the store driven by its callers directly: no queue, no pool, no driver
NoSimulation ==
    /\ q = [Q \in Queues |-> <<>>]
    /\ qmtx = [Q \in Queues |-> NoThread]
    /\ not_empty = [Q \in Queues |-> {}]
    /\ worker = [w \in Threads |-> [pc |-> "direct", task |-> NoTask]]
    /\ gen = [g \in Gens |-> NoGen(OwnQueue(g))]
    /\ driver = 0
    /\ executed = [Q \in Queues |-> 0]
    /\ log = [Q \in Queues |-> NoLog]

\* startSimulation is entered: no thread exists yet
InitSimulation ==
    /\ pc = [t \in Threads |-> "idle"]
    /\ op = [t \in Threads |-> NoOp]
    /\ loc = [t \in Threads |-> NoLoc]
    /\ calls = [t \in Threads |-> 0]
    /\ hist = [t \in Threads |-> NoHist]
    /\ ret = [t \in Threads |-> Result("none", 0)]
    /\ q = [Q \in Queues |-> <<>>]
    /\ qmtx = [Q \in Queues |-> NoThread]
    /\ not_empty = [Q \in Queues |-> {}]
    /\ worker = [w \in Threads |-> [pc |-> "unborn", task |-> NoTask]]
    /\ gen = [g \in Gens |-> NoGen(OwnQueue(g))]
    /\ driver = 1
    /\ executed = [Q \in Queues |-> 0]
    /\ log = [Q \in Queues |-> NoLog]

\* ------------------------------------------------------------ initial states
\* EStore::EStore(enableFineMode): every mutex free and no sleeper; the store
\* holds the inventory inv and the parameters ship and sdisc that earlier
\* supplier calls left
InitStore(mode, inv, ship, sdisc) ==
    /\ fineMode = mode
    /\ inventory = inv
    /\ shippingCost = ship
    /\ storeDiscount = sdisc
    /\ mtx = NoThread
    /\ global_mtx = NoThread
    /\ item_mtx = [i \in Ids |-> NoThread]
    /\ item_cv = [i \in Ids |-> {}]
    /\ item_cv_fine = [i \in Ids |-> {}]

\* no thread is inside the store; thread t will make lim[t] calls
InitThreads(lim) ==
    /\ pc = [t \in Threads |-> "idle"]
    /\ op = [t \in Threads |-> NoOp]
    /\ loc = [t \in Threads |-> NoLoc]
    /\ calls = lim
    /\ hist = [t \in Threads |-> NoHist]
    /\ ret = [t \in Threads |-> Result("none", 0)]
    /\ NoSimulation

OneCallEach == [t \in Threads |-> MaxCalls]

\* every slot carried, one unit in stock, price 10, no discount
AllStocked == [i \in Ids |-> StockedItem(1, 10, 0)]

\* ---------------------------------------------------------- groups of steps
BuyManySteps(t) ==
    \/ BuyManyGlobalLock(t)
    \/ BuyManySnapshot(t)
    \/ BuyManyGlobalUnlock(t)
    \/ BuyManyLock(t)
    \/ BuyManyCheck(t)
    \/ BuyManyCommit(t)
    \/ BuyManyUnlock(t)

FineSetterSteps(t) ==
    \/ SetterGlobalLock(t)
    \/ SetterGlobalBody(t)
    \/ SetterGlobalUnlock(t)
    \/ SetterItemLock(t)
    \/ SetterItemBroadcast(t)
    \/ SetterItemUnlock(t)
    \/ SetterLastUnlock(t)

\* ------------------------------------- SpecFine: the store in fine mode
\* Two customers place one order each while a supplier makes one call.
InitFine == InitStore(TRUE, AllStocked, 5, 0) /\ InitThreads(OneCallEach)

FineAdminCalls(t) ==
    \/ CallRemoveItem(t, Ids)
    \/ CallPriceItem(t, Ids, {20})
    \/ CallSetShippingCost(t, {0, -15})
    \/ CallSetStoreDiscount(t, {50})

FineAdminSteps(t) ==
    \/ ItemLock(t)
    \/ ItemTest(t)
    \/ RemoveItemBody(t)
    \/ PriceItemBody(t)
    \/ ItemUnlock(t)

NextFine ==
    \/ \E t \in Buyers : CallBuyManyItems(t, ListsOver(0..INVENTORY_SIZE), {30})
    \/ \E t \in Buyers : BuyManySteps(t)
    \/ FineAdminCalls(AdminT)
    \/ FineAdminSteps(AdminT)
    \/ FineSetterSteps(AdminT)

SpecFine == InitFine /\ [][NextFine]_vars


\* --------------------- SpecMany: concurrent multi-item orders in fine mode
\* Every customer places one order over any list of ids, in or out of range.
InitMany == InitStore(TRUE, AllStocked, 5, 0) /\ InitThreads(OneCallEach)

BuyManyThread(t) ==
    \/ CallBuyManyItems(t, ListsOver(ArgIds), {15, 30})
    \/ BuyManySteps(t)

NextMany == \E t \in Buyers : BuyManyThread(t)

SpecMany == InitMany /\ [][NextMany]_vars

\* the scheduler runs every thread that can take a step
FairSpecMany == SpecMany /\ \A t \in Buyers : WF_vars(BuyManyThread(t))


BuyItemSteps(t) ==
    \/ BuyItemLock(t)
    \/ BuyItemCarried(t)
    \/ BuyItemLoop(t)
    \/ BuyItemSleep(t)
    \/ BuyItemDecrement(t)
    \/ BuyItemWake(t)
    \/ BuyItemUnlock(t)

CoarseSetterSteps(t) ==
    \/ SetterLock(t)
    \/ SetterBody(t)
    \/ SetterUnlock(t)
    \/ SetterLastUnlock(t)

\* slot 0 carried but out of stock at price 10, every other slot in stock at
\* price 20
OutOfStockAndDear ==
    [i \in Ids |-> IF i = 0 THEN StockedItem(0, 10, 0) ELSE StockedItem(1, 20, 0)]

\* the scenarios: every customer makes one call, the supplier one or two
SingleCall == [t \in Threads |-> 1]
SupplierTwice == [t \in Threads |-> IF t = AdminT THEN 2 ELSE 1]

\* ------------------- SpecCoarse: purchases against the store-wide setters
\* Two customers buy one item each while the supplier sets the shipping cost
\* or the store discount.
InitCoarse == InitStore(FALSE, AllStocked, 5, 0) /\ InitThreads(OneCallEach)

CoarseCustomer(t) == CallBuyItem(t, Ids, {15}) \/ BuyItemSteps(t)

CoarseSupplier(t) ==
    \/ CallSetShippingCost(t, {0, 10})
    \/ CallSetStoreDiscount(t, {50})
    \/ CoarseSetterSteps(t)

NextCoarse ==
    \/ \E t \in Buyers : CoarseCustomer(t)
    \/ \E t \in Buyers : SpuriousWake(t)
    \/ CoarseSupplier(AdminT)

SpecCoarse == InitCoarse /\ [][NextCoarse]_vars

\* ------------------------- SpecStock: a customer waiting for fresh stock
\* The first customer asks for slot 0, the second for another slot; the
\* supplier restocks one slot.  Nothing else touches the store.
InitStock == InitStore(FALSE, OutOfStockAndDear, 0, 0) /\ InitThreads(SingleCall)

StockCustomer(t) ==
    \/ CallBuyItem(t, IF t = "customer1" THEN {0} ELSE Ids \ {0}, {10, 15})
    \/ BuyItemSteps(t)

StockSupplier(t) ==
    \/ CallAddStock(t, Ids, {0, 1, 2})
    \/ ItemLock(t)
    \/ ItemTest(t)
    \/ AddStockBody(t)
    \/ ItemUnlock(t)

NextStock ==
    \/ \E t \in Buyers : StockCustomer(t)
    \/ \E t \in Buyers : SpuriousWake(t)
    \/ StockSupplier(AdminT)

SpecStock == InitStock /\ [][NextStock]_vars

\* every thread that can run does run; a spurious wake-up is never owed, and
\* a call suffers at most MaxSpurious of them
FairSpecStock ==
    /\ SpecStock
    /\ \A t \in Buyers : WF_vars(StockCustomer(t))
    /\ WF_vars(StockSupplier(AdminT))

\* ------------------------- SpecPrice: a customer waiting for a lower price
\* The supplier reprices twice; each customer waits on a slot of its own.
InitPrice == InitStore(FALSE, OutOfStockAndDear, 0, 0) /\ InitThreads(SupplierTwice)

PriceCustomer(t) ==
    \/ CallBuyItem(t, IF t = "customer1" THEN Ids \ {0} ELSE {0}, {15})
    \/ BuyItemSteps(t)

PriceSupplier(t) ==
    \/ CallPriceItem(t, Ids \ {0}, {10, 25})
    \/ ItemLock(t)
    \/ ItemTest(t)
    \/ PriceItemBody(t)
    \/ ItemUnlock(t)

NextPrice ==
    \/ \E t \in Buyers : PriceCustomer(t)
    \/ \E t \in Buyers : SpuriousWake(t)
    \/ PriceSupplier(AdminT)

SpecPrice == InitPrice /\ [][NextPrice]_vars

FairSpecPrice ==
    /\ SpecPrice
    /\ \A t \in Buyers : WF_vars(PriceCustomer(t))
    /\ WF_vars(PriceSupplier(AdminT))

\* --------------------- SpecRemove: customers waiting on a slot that goes
\* The supplier removes slots and may carry them again.
InitRemove == InitStore(FALSE, OutOfStockAndDear, 0, 0) /\ InitThreads(SupplierTwice)

RemoveCustomer(t) == CallBuyItem(t, Ids, {15}) \/ BuyItemSteps(t)

RemoveSupplier(t) ==
    \/ CallRemoveItem(t, Ids)
    \/ CallAddItem(t, Ids, {0, 1}, {10}, {0})
    \/ ItemLock(t)
    \/ ItemTest(t)
    \/ RemoveItemBody(t)
    \/ AddItemBody(t)
    \/ ItemUnlock(t)

NextRemove ==
    \/ \E t \in Buyers : RemoveCustomer(t)
    \/ \E t \in Buyers : SpuriousWake(t)
    \/ RemoveSupplier(AdminT)

SpecRemove == InitRemove /\ [][NextRemove]_vars

FairSpecRemove ==
    /\ SpecRemove
    /\ \A t \in Buyers : WF_vars(RemoveCustomer(t))
    /\ WF_vars(RemoveSupplier(AdminT))

\* ------------------- SpecRange: every single-item call, ids of every kind
\* Customers and the supplier call with ids in and out of [0, INVENTORY_SIZE),
\* in a store of either mode.
InitRange ==
    /\ fineMode \in BOOLEAN
    /\ InitStore(fineMode, AllStocked, 5, 0)
    /\ InitThreads(OneCallEach)

RangeCustomer(t) == CallBuyItem(t, ArgIds, {15}) \/ BuyItemSteps(t)

RangeSupplierCalls(t) ==
    \/ CallAddItem(t, ArgIds, {1}, {10}, {0})
    \/ CallRemoveItem(t, ArgIds)
    \/ CallAddStock(t, ArgIds, {1})
    \/ CallPriceItem(t, ArgIds, {5})
    \/ CallDiscountItem(t, ArgIds, {50})
    \/ CallGetItemQuantity(t, ArgIds)

RangeSupplierSteps(t) ==
    \/ ItemLock(t)
    \/ ItemTest(t)
    \/ AddItemBody(t)
    \/ RemoveItemBody(t)
    \/ AddStockBody(t)
    \/ PriceItemBody(t)
    \/ DiscountItemBody(t)
    \/ GetItemQuantityBody(t)
    \/ ItemUnlock(t)

NextRange ==
    \/ \E t \in Buyers : RangeCustomer(t)
    \/ \E t \in Buyers : SpuriousWake(t)
    \/ RangeSupplierCalls(AdminT)
    \/ RangeSupplierSteps(AdminT)

SpecRange == InitRange /\ [][NextRange]_vars

\* --------------------------------- SpecSim: the simulation of estoresim.cpp
\* One supplier worker and two customer workers, one generator per pool, the
\* driver, and a store of either mode.  The customer generator makes
\* purchases of the kind the store's mode allows.
InitSim ==
    /\ fineMode \in BOOLEAN
    /\ InitStore(fineMode, AllStocked, 5, 0)
    /\ InitSimulation

SimCustomerCall(t) ==
    \/ fineMode /\ CallBuyManyItems(t, {<<1, 0>>}, {30})
    \/ ~fineMode /\ CallBuyItem(t, {0}, {10})

SimSupplierCall(t) ==
    \/ CallAddStock(t, {0}, {1})
    \/ CallPriceItem(t, {0}, {5})

QueueSteps(w) ==
    \/ DequeueLock(w)
    \/ DequeueWait(w)
    \/ DequeueWake(w)
    \/ DequeueTake(w)
    \/ WorkerReturn(w)

CustomerWorker(t) ==
    \/ QueueSteps(t)
    \/ SimCustomerCall(t)
    \/ BuyItemSteps(t)
    \/ SpuriousWake(t)
    \/ BuyManySteps(t)

SupplierWorker(t) ==
    \/ QueueSteps(t)
    \/ SimSupplierCall(t)
    \/ ItemLock(t)
    \/ ItemTest(t)
    \/ AddStockBody(t)
    \/ PriceItemBody(t)
    \/ ItemUnlock(t)

Generator(g) ==
    \/ EnqueueLock(g)
    \/ EnqueuePush(g)

Driver == DriverCreate \/ DriverJoin \/ DriverDelete

NextSim ==
    \/ Driver
    \/ \E g \in Gens : Generator(g)
    \/ \E t \in Buyers : CustomerWorker(t)
    \/ SupplierWorker(AdminT)

SpecSim == InitSim /\ [][NextSim]_vars

\* every thread that can take a step does so in the end
FairSpecSim ==
    /\ SpecSim
    /\ WF_vars(Driver)
    /\ \A g \in Gens : WF_vars(Generator(g))
    /\ \A t \in Buyers : WF_vars(CustomerWorker(t))
    /\ WF_vars(SupplierWorker(AdminT))

\* ------------------ SpecQueue: one task queue, two producers, two consumers
\* Both generators are constructed with customerTasks and both customer
\* workers drain it; the handler of a real task is a quantity query.
InitQueue ==
    /\ InitStore(FALSE, AllStocked, 5, 0)
    /\ pc = [t \in Threads |-> "idle"]
    /\ op = [t \in Threads |-> NoOp]
    /\ loc = [t \in Threads |-> NoLoc]
    /\ calls = [t \in Threads |-> 0]
    /\ hist = [t \in Threads |-> NoHist]
    /\ ret = [t \in Threads |-> Result("none", 0)]
    /\ q = [Q \in Queues |-> <<>>]
    /\ qmtx = [Q \in Queues |-> NoThread]
    /\ not_empty = [Q \in Queues |-> {}]
    /\ worker = [w \in Threads |->
                    [pc |-> IF w \in Buyers THEN "dq_lock" ELSE "direct", task |-> NoTask]]
    /\ gen = [g \in Gens |-> [NoGen("customerTasks") EXCEPT !.pc = "enq_lock"]]
    /\ driver = 0
    /\ executed = [Q \in Queues |-> 0]
    /\ log = [Q \in Queues |-> NoLog]

QueueConsumer(w) ==
    \/ QueueSteps(w)
    \/ CallGetItemQuantity(w, {0})
    \/ ItemLock(w)
    \/ GetItemQuantityBody(w)
    \/ ItemUnlock(w)

NextQueue ==
    \/ \E g \in Gens : Generator(g)
    \/ \E w \in Buyers : QueueConsumer(w)

SpecQueue == InitQueue /\ [][NextQueue]_vars

\* ===================================================================== claims
\* the mutex thread t is blocked on, as the thread that owns it (NoThread if
\* t is not blocked on a mutex)
WaitsFor(t) ==
    IF pc[t] = "bm_lock" THEN item_mtx[loc[t].ids[loc[t].i]]
    ELSE IF pc[t] \in {"bm_glock", "st_glock"} THEN global_mtx
    ELSE IF pc[t] = "st_ilock" THEN item_mtx[loc[t].i]
    ELSE IF pc[t] = "lock" THEN (IF fineMode THEN item_mtx[op[t].id] ELSE mtx)
    ELSE IF pc[t] \in {"bi_lock", "st_lock"} THEN mtx
    ELSE NoThread

\* the threads reached from t by following WaitsFor at least once
RECURSIVE WaitChain(_, _)
WaitChain(t, seen) ==
    LET o == WaitsFor(t)
    IN IF o = NoThread \/ o \in seen THEN seen ELSE WaitChain(o, seen \cup {o})

NoWaitCycle == \A t \in Threads : WaitsFor(t) # t /\ t \notin WaitChain(t, {})

InBuyMany(t) == pc[t] \in {"bm_glock", "bm_snap", "bm_gunlock", "bm_lock",
                           "bm_check", "bm_commit", "bm_unlock"}

\* C1: Deadlock freedom.  In fine mode, with any buyManyItems calls running
\* concurrently on overlapping id lists, no reachable state holds a cycle of
\* threads each waiting for an item mutex another one holds, and under weak
\* fairness every call that has started eventually returns.
C1_DeadlockFreedom ==
    /\ []NoWaitCycle
    /\ \A t \in Buyers : InBuyMany(t) ~> (pc[t] = "idle")

\* two orders listing the same two ids in opposite orders, one of them
\* waiting for an item mutex that the other holds
C1_Witness ==
    \E t \in Buyers, u \in Buyers :
        /\ t # u
        /\ Len(op[t].ids) = 2 /\ op[t].ids[1] > op[t].ids[2]
        /\ op[u].ids = <<op[t].ids[2], op[t].ids[1]>>
        /\ InRange(op[t].ids[1]) /\ InRange(op[t].ids[2])
        /\ pc[t] = "bm_lock" /\ WaitsFor(t) = u
        /\ InBuyMany(u)

\* the slots an order works on
OrderSlots(t) == Range(loc[t].ids)

IsOrder(t) == op[t].name = "buyManyItems" /\ ret[t].how \in {"running", "commit", "abort"}

RECURSIVE SumDec(_, _)
SumDec(T, i) ==
    IF T = {} THEN 0
    ELSE LET t == CHOOSE x \in T : TRUE IN hist[t].dec[i] + SumDec(T \ {t}, i)

JustChecked(t) ==
    /\ IsOrder(t)
    /\ pc[t] \in {"bm_commit", "bm_unlock"}
    /\ hist[t].dec = NoDec
    /\ \A i \in OrderSlots(t) : item_mtx[i] = t

SlotCost(t, k) ==
    ScaledCost(inventory[loc[t].ids[k]].price, inventory[loc[t].ids[k]].discount,
               loc[t].discSnap, loc[t].shipSnap)

\* the total of the first k slots of the order of t, at the snapshotted parameters
RunningTotal(t, k) ==
    LET sum[j \in 0..k] == IF j = 0 THEN 0 ELSE sum[j - 1] + SlotCost(t, j)
    IN sum[k]

\* the three conditions the claim names
CarriedStockedAffordable(t) ==
    \A k \in 1..Len(loc[t].ids) :
        /\ inventory[loc[t].ids[k]].valid
        /\ inventory[loc[t].ids[k]].quantity > 0
        /\ RunningTotal(t, k) <= op[t].budget * Scale

NoNegativeCost(t) == \A k \in 1..Len(loc[t].ids) : SlotCost(t, k) >= 0

\* an order decrements all of its slots exactly when its verification passed
CommitsIffVerified(t) ==
    (IsOrder(t) /\ pc[t] = "idle") =>
        /\ ret[t].how = (IF loc[t].ok THEN "commit" ELSE "abort")
        /\ \A i \in OrderSlots(t) : hist[t].dec[i] = (IF loc[t].ok THEN 1 ELSE 0)

C6_OutOfRangeOrderBuysNothing ==
    \A t \in Buyers :
        (op[t].name = "buyManyItems" /\ \E k \in 1..Len(op[t].ids) : ~InRange(op[t].ids[k]))
            => hist[t].dec = NoDec

\* ---------------------------------------------------------------------
\* the units of slot i bought by calls that have returned
Purchased(i) ==
    Cardinality({t \in Buyers : /\ pc[t] = "idle"
                                /\ op[t].name = "buyItem"
                                /\ op[t].id = i
                                /\ ret[t].how = "bought"})

Quiescent == \A t \in Threads : pc[t] = "idle"

\* C3: in coarse mode, with the setters running beside the purchases, no
\* quantity is ever negative, and once every call has returned each quantity
\* is the initial one less the purchases made of it.
C3_SinglePurchaseAtomicity ==
    \A i \in Ids :
        /\ inventory[i].quantity >= 0
        /\ Quiescent => inventory[i].quantity = AllStocked[i].quantity - Purchased(i)

\* ---------------------------------------------------------------------
CostOf(i) == totalCost_nolock(inventory[i])

\* the supplier's addStock(id, c) with c > 0 on the slot t waits for has run
Restocked(t) ==
    /\ op[AdminT].name = "addStock"
    /\ op[AdminT].id = op[t].id
    /\ op[AdminT].n > 0
    /\ ret[AdminT].how = "done"

WaitsForStock(t) ==
    /\ pc[t] = "bi_wait"
    /\ Restocked(t)
    /\ CostOf(op[t].id) <= op[t].budget * Scale

BoughtOneAfterRestock(t) ==
    /\ pc[t] = "idle"
    /\ ret[t].how = "bought"
    /\ hist[t].dec = [NoDec EXCEPT ![op[t].id] = 1]
    /\ inventory[op[t].id].quantity =
           OutOfStockAndDear[op[t].id].quantity + op[AdminT].n - 1

\* C7: a buyItem call asleep on a carried slot it can afford, alone on that
\* slot, returns after addStock(id, c) with c > 0 has run, having taken
\* exactly one unit: the quantity is the old one plus c less one.
C7_WakeUpCorrectness ==
    \A t \in Buyers : WaitsForStock(t) ~> BoughtOneAfterRestock(t)

\* the call is still asleep when addStock(0, 1) has just put one unit on
\* the shelf
C7_Witness ==
    /\ WaitsForStock("customer1")
    /\ op[AdminT].n = 1
    /\ inventory[0].quantity = 1

\* ---------------------------------------------------------------------
Repricing == pc[AdminT] = "cs" /\ op[AdminT].name = "priceItem"

\* the step of priceItem that stores a higher price wakes nobody
RaiseIsSilent ==
    (Repricing /\ pc'[AdminT] = "unlock"
               /\ op[AdminT].v > inventory[op[AdminT].id].price)
        => (item_cv' = item_cv /\ \A t \in Buyers : pc'[t] = pc[t])

SupplierDone == pc[AdminT] = "idle" /\ calls[AdminT] = 0

\* t is asleep on a slot the supplier has priced within t's budget for good
WaitsAtGoodPrice(t) ==
    /\ pc[t] = "bi_wait"
    /\ SupplierDone
    /\ op[AdminT].name = "priceItem"
    /\ op[AdminT].id = op[t].id
    /\ CanBuy(inventory[op[t].id], op[t].budget)

\* C8: a priceItem that raises the price broadcasts nothing and leaves the
\* sleeping customer asleep; after a priceItem that brings the cost within
\* the budget the customer completes its purchase and returns.
C8_MonotonicWakePolicy ==
    /\ [][RaiseIsSilent]_vars
    /\ \A t \in Buyers :
           WaitsAtGoodPrice(t) ~> (pc[t] = "idle" /\ ret[t].how = "bought")

\* the price went up to 25 and the customer with budget 15 is still among
\* the sleepers of the slot
C8_Witness ==
    \E t \in Buyers :
        /\ pc[t] = "bi_wait"
        /\ t \in item_cv[op[t].id]
        /\ inventory[op[t].id].price = 25
        /\ op[AdminT].name = "priceItem"
        /\ op[AdminT].id = op[t].id
        /\ ret[AdminT].how = "done"
        /\ calls[AdminT] = 1

\* ---------------------------------------------------------------------
\* C9 as stated: a call that was blocked when removeItem took its slot
\* decrements nothing, whatever the other operations do.
C9_Claimed ==
    \A t \in Buyers : hist[t].orphaned => hist[t].dec = NoDec

Orphan(t) == hist[t].orphaned /\ ~hist[t].readded

\* C9: a call that was blocked when removeItem took its slot, and whose slot
\* addItem has not carried again before the call looked at it, decrements
\* nothing and returns.
C9_RemovalUnblocks ==
    /\ [](\A t \in Buyers :
             Orphan(t) => /\ hist[t].dec = NoDec
                          /\ pc[t] = "idle" => ret[t].how = "removed")
    /\ \A t \in Buyers :
           Orphan(t) ~> (hist[t].readded \/ (pc[t] = "idle" /\ ret[t].how = "removed"))

\* the slot is gone and the call that slept on it has not looked yet
C9_Witness ==
    \E t \in Buyers :
        /\ Orphan(t)
        /\ pc[t] = "bi_wait"
        /\ ~inventory[op[t].id].valid

\* ---------------------------------------------------------------------
SingleItemOps ==
    {"addItem", "removeItem", "addStock", "priceItem", "discountItem", "buyItem",
     "getItemQuantity"}

\* t makes a single-item call whose id is outside [0, INVENTORY_SIZE)
OutOfRangeCall(t) ==
    /\ calls'[t] < calls[t]
    /\ op'[t].name \in SingleItemOps
    /\ op'[t].id < 0 \/ op'[t].id >= INVENTORY_SIZE

\* the call is over in the step that made it: nothing of the store, no lock
\* and no condition variable has changed, and the result is 0
ReturnsUntouched(t) ==
    /\ UNCHANGED <<storeVars, lockVars, cvVars>>
    /\ pc'[t] = "idle"
    /\ ret'[t] = Result("range", 0)

\* C5 as stated: in both modes every single-item call, buyItem included,
\* with an id out of range returns at once and touches nothing.
C5_Claimed ==
    [][\A t \in Threads : OutOfRangeCall(t) => ReturnsUntouched(t)]_vars

\* C5: with an id out of range addItem, removeItem, addStock, priceItem,
\* discountItem and getItemQuantity in both modes, and buyItem in coarse
\* mode, return at once, touch no slot, no parameter, no lock and no
\* condition variable, and getItemQuantity yields 0.
C5_OutOfRangeNoOp ==
    [][\A t \in Threads :
          (OutOfRangeCall(t) /\ ~(fineMode /\ op'[t].name = "buyItem"))
              => ReturnsUntouched(t)]_vars

\* buyItem(-1, 15) has returned in coarse mode while the supplier's call with
\* id INVENTORY_SIZE has returned too
C5_Witness ==
    /\ ~fineMode
    /\ \E t \in Buyers :
           /\ op[t].name = "buyItem"
           /\ op[t].id = -1
           /\ pc[t] = "idle"
           /\ ret[t] = Result("range", 0)
    /\ op[AdminT].name \in SingleItemOps
    /\ op[AdminT].id = INVENTORY_SIZE
    /\ ret[AdminT] = Result("range", 0)

\* ---------------------------------------------------------------------
PoolDone(Q) ==
    /\ \A w \in WorkersOf(Q) : worker[w].pc = "exited"
    /\ executed[Q] = maxTasks

AllDone == DriverDone /\ \A Q \in Queues : PoolDone(Q)

\* C10 as stated: in either mode every worker terminates, the joins return
\* and each pool has executed exactly maxTasks real tasks.
C10_Claimed == <>AllDone

\* C10: in fine mode every worker of both pools terminates, the driver's
\* joins return and each pool has executed exactly maxTasks real tasks; in
\* coarse mode the supplier pool does so, and no pool ever executes more
\* than maxTasks real tasks.
C10_WorkerTermination ==
    /\ fineMode => <>AllDone
    /\ <>PoolDone("supplierTasks")
    /\ [](\A Q \in Queues : executed[Q] <= maxTasks)

\* the fine-mode simulation is over
C10_Witness == fineMode /\ AllDone

\* ---------------------------------------------------------------------
\* w is executing a dequeued task and waits on a condition variable of the
\* store
WaitsInStore(w) ==
    /\ worker[w].pc = "run"
    /\ \/ pc[w] = "bi_wait"
       \/ \E i \in Ids : w \in item_cv[i] \cup item_cv_fine[i]

\* C11 as stated: in either mode no worker waits on a condition variable of
\* the store while it executes a dequeued task.
C11_Claimed == \A w \in Threads : ~WaitsInStore(w)

\* C11: the only worker that waits on a condition variable of the store is a
\* customer worker in coarse mode inside buyItem; it waits on the condition
\* variable of the item it asked for and holds no mutex meanwhile.  In fine
\* mode, and for the supplier worker in both modes, nothing but dequeue
\* blocks.
C11_BlockingPoints ==
    \A w \in Threads :
        /\ WaitsInStore(w) =>
              /\ ~fineMode
              /\ w \in Buyers
              /\ op[w].name = "buyItem"
              /\ pc[w] = "bi_wait"
              /\ mtx # w
              /\ \A Q \in Queues : qmtx[Q] # w
        /\ \A i \in Ids : w \in item_cv[i] => op[w].id = i
        /\ \A i \in Ids : w \notin item_cv_fine[i]

\* a customer worker asleep in buyItem on the condition variable of slot 0
C11_Witness ==
    \E w \in Buyers :
        /\ ~fineMode
        /\ worker[w].pc = "run"
        /\ worker[w].task = "task"
        /\ pc[w] = "bi_wait"
        /\ w \in item_cv[0]

\* ---------------------------------------------------------------------
Count(s, x) == Cardinality({k \in 1..Len(s) : s[k] = x})

\* every task pushed on Q is either still queued or was returned by one
\* dequeue, and nothing else is queued or was returned
ExactlyOnce(Q) ==
    /\ \A x \in Range(log[Q].enq) :
           /\ Count(log[Q].enq, x) = 1
           /\ Count(log[Q].deq, x) + Count(q[Q], x) = 1
    /\ Range(log[Q].deq) \cup Range(q[Q]) \subseteq Range(log[Q].enq)

TasksOf(s, g) == SelectSeq(s, LAMBDA x : x.by = g)

IsPrefix(a, b) == Len(a) <= Len(b) /\ \A k \in 1..Len(a) : a[k] = b[k]

\* C12: every enqueued task is in the queue or has been returned by exactly
\* one dequeue, never both and never twice, and the tasks of one producer
\* are returned in the order in which it enqueued them.
C12_TaskDelivery ==
    \A Q \in Queues :
        /\ ExactlyOnce(Q)
        /\ \A g \in Gens : IsPrefix(TasksOf(log[Q].deq, g), TasksOf(log[Q].enq, g))

\* tasks of both producers have been returned, two of one producer among
\* them, while more are queued
C12_Witness ==
    LET done == log["customerTasks"].deq IN
    /\ \A g \in Gens : TasksOf(done, g) # <<>>
    /\ \E g \in Gens : Len(TasksOf(done, g)) >= 2
    /\ q["customerTasks"] # <<>>

\* ---------------------------------------------------------------------
\* a step in which dequeue returns to worker w
DequeueReturns(w) ==
    worker[w].pc = "dq_check" /\ worker'[w].pc \in {"run", "exited"}

\* a step of worker w that has the mutex and finds the queue empty
FindsEmpty(w) ==
    worker[w].pc = "dq_check" /\ q[QueueOf(w)] = <<>> /\ worker'[w] # worker[w]

EnqueueNeverWaits ==
    \A g \in Gens :
        /\ \A Q \in Queues : g \notin not_empty[Q]
        /\ gen[g].pc = "enq_push" => ENABLED EnqueuePush(g)

\* C13: dequeue returns only from a queue that is not empty, removing and
\* yielding its head; a consumer that holds the mutex and finds the queue
\* empty goes (back) to sleep on not_empty; enqueue never waits.
C13_DequeueFromHead ==
    /\ [][\A w \in Threads :
            LET Q == QueueOf(w) IN
            /\ DequeueReturns(w) =>
                  /\ q[Q] # <<>>
                  /\ log'[Q].deq = Append(log[Q].deq, Head(q[Q]))
                  /\ q'[Q] = Tail(q[Q])
            /\ FindsEmpty(w) =>
                  /\ worker'[w].pc = "dq_wait"
                  /\ w \in not_empty'[Q]
                  /\ q' = q]_vars
    /\ []EnqueueNeverWaits

\* a consumer was signalled, but the other consumer took the task before it
\* could take the mutex: the queue it wakes to is empty
C13_Witness ==
    \E w \in Buyers :
        /\ worker[w].pc = "dq_wait"
        /\ w \notin not_empty[QueueOf(w)]
        /\ q[QueueOf(w)] = <<>>
        /\ log[QueueOf(w)].deq # <<>>

\* -------------------- SpecRace: every kind of call against a coarse store
\* Slot 0 is not carried and slot 1 is in stock at price 20.  The customers
\* add slot 0 with values of their own, buy or reprice slot 1 or read a
\* quantity,
\* while the supplier makes two calls: it sets the shipping cost, removes
\* slot 1 or both.
OnlyLastCarried ==
    [i \in Ids |-> IF i = 0 THEN NoItem ELSE StockedItem(1, 20, 0)]

InitRace == InitStore(FALSE, OnlyLastCarried, 5, 0) /\ InitThreads(SupplierTwice)

\* the quantity by which the calls of addItem are told apart
OwnQuantity(t) == IF t = "customer1" THEN 1 ELSE 2

RaceCustomer(t) ==
    \/ CallAddItem(t, {0}, {OwnQuantity(t)}, {10}, {0})
    \/ CallBuyItem(t, {1}, {20})
    \/ CallGetItemQuantity(t, {1, INVENTORY_SIZE})
    \/ CallPriceItem(t, {1}, {15})
    \/ BuyItemSteps(t)
    \/ ItemLock(t)
    \/ ItemTest(t)
    \/ AddItemBody(t)
    \/ PriceItemBody(t)
    \/ GetItemQuantityBody(t)
    \/ ItemUnlock(t)

RaceSupplier(t) ==
    \/ CallSetShippingCost(t, {0})
    \/ CallRemoveItem(t, {1})
    \/ CoarseSetterSteps(t)
    \/ ItemLock(t)
    \/ ItemTest(t)
    \/ RemoveItemBody(t)
    \/ ItemUnlock(t)

NextRace ==
    \/ \E t \in Buyers : RaceCustomer(t)
    \/ \E t \in Buyers : SpuriousWake(t)
    \/ RaceSupplier(AdminT)

SpecRace == InitRace /\ [][NextRace]_vars

\* the step in which addItem of thread t leaves its guarded block
AddItemActs(t) ==
    pc[t] = "cs" /\ op[t].name = "addItem" /\ pc'[t] = "unlock"

\* C14: addItem on a carried slot changes nothing, so the values of the
\* first call stay in effect; of two calls racing for a slot that is not
\* carried, one stores its quantity, price and discount as a whole and the
\* other changes nothing.
C14_IdempotentAdd ==
    [][\A t \in Threads :
          AddItemActs(t) =>
              IF inventory[op[t].id].valid
                THEN inventory' = inventory /\ item_cv' = item_cv
                ELSE inventory' = [inventory EXCEPT ![op[t].id] =
                                      StockedItem(op[t].n, op[t].v, op[t].d)]]_vars

\* ---------------------------------------------------------------------
\* the step in which getItemQuantity of thread t reads the slot
GetItemQuantityActs(t) ==
    pc[t] = "cs" /\ op[t].name = "getItemQuantity" /\ pc'[t] = "unlock"

\* the step in which getItemQuantity of thread t returns from its range check
GetItemQuantityRejects(t) ==
    /\ pc[t] = "idle" /\ pc'[t] = "idle"
    /\ calls'[t] # calls[t]
    /\ op'[t].name = "getItemQuantity"

\* C15: getItemQuantity returns 0 for an id out of range and for a slot that
\* is not carried, whatever quantity the slot still stores, and the quantity
\* of a carried slot; it reads the slot while it holds the mutex that guards
\* the slot, and it changes neither the store nor a condition variable.
C15_LockedRead ==
    [][\A t \in Threads :
          /\ GetItemQuantityActs(t) =>
                /\ HoldsSlotLock(t, op[t].id)
                /\ ret'[t].q = IF inventory[op[t].id].valid
                                 THEN inventory[op[t].id].quantity ELSE 0
                /\ UNCHANGED <<storeVars, cvVars>>
          /\ GetItemQuantityRejects(t) =>
                /\ ~InRange(op'[t].id)
                /\ ret'[t].q = 0
                /\ UNCHANGED <<storeVars, lockVars, cvVars>>]_vars

\* ---------------------------------------------------------------------
\* the step in which buyItem of thread t tests whether the slot is carried
\* and finds that it is not
FindsNotCarried(t) ==
    pc[t] = "bi_carried" /\ pc'[t] # pc[t] /\ ~inventory[op[t].id].valid

\* the step in which buyItem of thread t joins the sleepers of its slot
BeginsWaiting(t) == pc[t] = "bi_sleep" /\ pc'[t] = "bi_wait"

\* C16: a buyItem that finds its slot not carried once it has the store
\* mutex goes straight to its unlock and return, buying nothing and joining
\* no condition variable; so no thread begins to wait on the condition
\* variable of a slot that is not carried.
C16_NoWaitOnInvalid ==
    [][\A t \in Buyers :
          /\ FindsNotCarried(t) =>
                /\ pc'[t] = "bi_unlock"
                /\ ret'[t].how = "notcarried"
                /\ UNCHANGED <<storeVars, cvVars>>
          /\ BeginsWaiting(t) => inventory[op[t].id].valid]_vars

\* ---------------------------------------------------------------------
\* the step in which a single-item mutator other than addItem leaves its
\* guarded block
MutatorActs(t) ==
    /\ pc[t] = "cs" /\ pc'[t] = "unlock"
    /\ op[t].name \in {"removeItem", "addStock", "priceItem", "discountItem"}

\* C17: removeItem, addStock, priceItem and discountItem on a slot that is
\* not carried, and addStock of a count that is not positive, change no slot
\* and no store-wide parameter and wake nobody; on a carried slot they change
\* the slot they are called for and nothing else.
C17_FrameEffect ==
    [][\A t \in Threads :
          MutatorActs(t) =>
              /\ shippingCost' = shippingCost
              /\ storeDiscount' = storeDiscount
              /\ \A i \in Ids \ {op[t].id} : inventory'[i] = inventory[i]
              /\ (\/ ~inventory[op[t].id].valid
                  \/ op[t].name = "addStock" /\ op[t].n <= 0)
                     => inventory' = inventory /\ UNCHANGED cvVars]_vars

\* ---------------------------------------------------------------------
\* thread t, where it is about to unlock a mutex (or to release it in
\* scond_wait), holds that mutex
UnlocksHeld(t) ==
    /\ pc[t] = "unlock" => HoldsSlotLock(t, op[t].id)
    /\ pc[t] \in {"bi_sleep", "bi_unlock", "st_unlock", "st_last"} => mtx = t
    /\ pc[t] \in {"bm_gunlock", "st_gunlock"} => global_mtx = t
    /\ pc[t] = "bm_unlock" => item_mtx[loc[t].ids[loc[t].i]] = t
    /\ pc[t] = "st_iunlock" => item_mtx[loc[t].i] = t

\* C18: no thread unlocks a mutex it does not hold: at every unlock of every
\* store operation the caller holds the mutex from a lock of its own that it
\* has not yet released.
C18_UnlockOnlyHeld == \A t \in Threads : UnlocksHeld(t)

\* ---------------------------------------------------------------------
\* the item mutexes thread t holds
HeldItems(t) == {i \in Ids : item_mtx[i] = t}

\* the step in which thread t takes item mutex j, or gives it back
Acquires(t, j) == item_mtx[j] # t /\ item_mtx'[j] = t
Releases(t, j) == item_mtx[j] = t /\ item_mtx'[j] # t

\* C19: buyManyItems takes its item mutexes in strictly ascending order of
\* id and gives them back in strictly descending order: when it requests
\* mutex j it holds exactly the mutexes of its ids below j, it verifies and
\* commits holding them all, it releases the highest it holds, and once it
\* has released one it takes no other, whether the order commits or aborts.
C19_LockOrdering ==
    /\ [](\A t \in Buyers :
            LET ids == loc[t].ids IN
            /\ pc[t] = "bm_lock" =>
                  HeldItems(t) = {x \in Range(ids) : x < ids[loc[t].i]}
            /\ pc[t] \in {"bm_check", "bm_commit"} => HeldItems(t) = Range(ids)
            /\ pc[t] = "bm_unlock" =>
                  HeldItems(t) = {x \in Range(ids) : x <= ids[loc[t].i]}
            /\ pc[t] \notin {"bm_lock", "bm_check", "bm_commit", "bm_unlock"} =>
                  HeldItems(t) = {})
    /\ [][\A t \in Buyers : \A j \in Ids :
            /\ Acquires(t, j) =>
                  /\ pc[t] = "bm_lock"
                  /\ \A x \in HeldItems(t) : x < j
            /\ Releases(t, j) =>
                  /\ pc[t] = "bm_unlock"
                  /\ \A x \in HeldItems(t) : x <= j
                  /\ pc'[t] \in {"bm_unlock", "idle"}
            /\ pc[t] = "bm_unlock" => pc'[t] \in {"bm_unlock", "idle"}]_vars

\* one order of two ids has committed and given back the higher mutex while
\* another order, aborted, is about to give back its only one
C19_Witness ==
    \E t, u \in Buyers :
        /\ pc[t] = "bm_unlock" /\ ret[t].how = "commit"
        /\ Len(loc[t].ids) = 2 /\ HeldItems(t) = {loc[t].ids[1]}
        /\ pc[u] = "bm_unlock" /\ ret[u].how = "abort"
        /\ HeldItems(u) # {}

\* ---------------------------------------------------------------------
\* thread t is at a statement that reads or writes slot i
TouchesSlot(t, i) ==
    \/ pc[t] \in {"test", "cs", "bi_carried", "bi_loop", "bi_dec"} /\ op[t].id = i
    \/ pc[t] \in {"bm_check", "bm_commit"} /\ i \in Range(loc[t].ids)

\* thread t is at a statement that reads or writes shippingCost or
\* storeDiscount
TouchesParameters(t) == pc[t] \in {"bi_loop", "st_cs", "bm_snap", "st_gcs"}

\* thread t is between a lock and the matching unlock of the store mutex
InCoarseSection(t) ==
    \/ pc[t] \in {"test", "cs", "unlock"} /\ ~fineMode
    \/ pc[t] \in {"bi_carried", "bi_loop", "bi_dec", "bi_sleep", "bi_unlock"}
    \/ pc[t] \in {"st_cs", "st_unlock"}

\* C20: in coarse mode a thread that reads or writes a slot, shippingCost or
\* storeDiscount holds the store mutex, and no two threads are inside a
\* critical section of the store at once; in fine mode a thread that reads
\* or writes slot i holds item mutex i, and one that reads or writes
\* shippingCost or storeDiscount holds the global mutex.
C20_MutualExclusion ==
    /\ \A t \in Threads :
          /\ \A i \in Ids : TouchesSlot(t, i) => HoldsSlotLock(t, i)
          /\ TouchesParameters(t) => IF fineMode THEN global_mtx = t ELSE mtx = t
    /\ \A t, u \in Threads : InCoarseSection(t) /\ InCoarseSection(u) => t = u

\* ---------------------------------------------------------------------
\* thread t is at a lock of an item mutex
RequestsItem(t) == pc[t] \in {"lock", "bm_lock", "st_ilock"}

\* C21: in fine mode a thread that holds the global mutex neither holds nor
\* requests an item mutex, and a thread inside any operation but
\* buyManyItems holds at most one item mutex.
C21_GlobalBeforeItems ==
    \A t \in Threads :
        /\ global_mtx = t => HeldItems(t) = {} /\ ~RequestsItem(t)
        /\ op[t].name # "buyManyItems" => Cardinality(HeldItems(t)) <= 1

\* a setter is in the last round of its wake-up loop, holding that item's
\* mutex alone, while an order takes its snapshot under the global mutex
C21_Witness ==
    /\ pc[AdminT] = "st_ibcast"
    /\ loc[AdminT].i = INVENTORY_SIZE - 1
    /\ HeldItems(AdminT) = {INVENTORY_SIZE - 1}
    /\ \E t \in Buyers : global_mtx = t /\ pc[t] = "bm_snap"

\* ---------------------------------------------------------------------
\* the guarded block of the single-item mutator thread t is in broadcasts
MutatorWakes(t) ==
    LET o == op[t] IN
    CASE o.name = "addItem" -> AddItemWakes(Seen(t), o)
      [] o.name = "removeItem" -> RemoveItemWakes(Seen(t), o)
      [] o.name = "addStock" -> AddStockWakes(Seen(t), o)
      [] o.name = "priceItem" -> PriceItemWakes(Seen(t), o)
      [] o.name = "discountItem" -> DiscountItemWakes(Seen(t), o)
      [] OTHER -> FALSE

\* the step in which thread t broadcasts on the condition variable of slot i
BroadcastsOn(t, i) ==
    \/ pc[t] = "cs" /\ pc'[t] = "unlock" /\ op[t].id = i /\ MutatorWakes(t)
    \/ pc[t] = "st_cs" /\ pc'[t] = "st_unlock" /\ SetterWakes(op[t])
    \/ pc[t] = "st_ibcast" /\ pc'[t] = "st_iunlock" /\ loc[t].i = i

\* C22: a thread that broadcasts on the condition variable of a slot holds
\* the mutex that goes with it: the store mutex in coarse mode, the mutex of
\* that slot in fine mode, in every round of the setters' wake-up loops too.
C22_BroadcastUnderLock ==
    [][\A t \in Threads : \A i \in Ids :
          BroadcastsOn(t, i) => HoldsSlotLock(t, i)]_vars

\* ------------- SpecWake: a waiting customer against every kind of mutation
\* Slot 0 is out of stock at price 10, slot 1 in stock at price 20, shipping
\* costs 5.  The first customer asks for either slot with a budget of 20 and
\* has to wait; a second thread restocks slot 0 or changes the price or the
\* discount of slot 1; the supplier sets the shipping cost or the store
\* discount.
InitWake == InitStore(FALSE, OutOfStockAndDear, 5, 0) /\ InitThreads(SingleCall)

WakeCustomer(t) == CallBuyItem(t, Ids, {20}) \/ BuyItemSteps(t)

WakeMutator(t) ==
    \/ CallAddStock(t, {0}, {1})
    \/ CallPriceItem(t, Ids \ {0}, {15, 25})
    \/ CallDiscountItem(t, Ids \ {0}, {25})
    \/ ItemLock(t)
    \/ ItemTest(t)
    \/ AddStockBody(t)
    \/ PriceItemBody(t)
    \/ DiscountItemBody(t)
    \/ ItemUnlock(t)

WakeSupplier(t) ==
    \/ CallSetShippingCost(t, {0, 10})
    \/ CallSetStoreDiscount(t, {25})
    \/ CoarseSetterSteps(t)

NextWake ==
    \/ WakeCustomer("customer1")
    \/ SpuriousWake("customer1")
    \/ WakeMutator("customer2")
    \/ WakeSupplier(AdminT)

SpecWake == InitWake /\ [][NextWake]_vars

FairSpecWake ==
    /\ SpecWake
    /\ WF_vars(WakeCustomer("customer1"))
    /\ WF_vars(WakeMutator("customer2"))
    /\ WF_vars(WakeSupplier(AdminT))

\* buyItem of thread t is blocked in scond_wait
Blocked(t) == pc[t] = "bi_wait"

\* the predicate buyItem of thread t waits for
Buyable(t) ==
    inventory[op[t].id].valid /\ CanBuy(inventory[op[t].id], op[t].budget)

\* C23: in coarse mode a step that makes the predicate of a sleeping
\* buyItem true also takes the call out of the sleepers of its slot, so a
\* step that broadcasts nothing never makes such a predicate true; and no
\* call stays blocked for ever while its predicate stays true.
C23_NoMissedWakeUp ==
    /\ [][\A t \in Buyers :
            (Blocked(t) /\ t \in item_cv[op[t].id] /\ ~Buyable(t) /\ Buyable(t)')
                => t \notin item_cv'[op[t].id]]_vars
    /\ \A t \in Buyers :
           (Blocked(t) /\ Buyable(t)) ~> (~Blocked(t) \/ ~Buyable(t))

\* ---------------------------------------------------------------------
\* the step in which buyItem of thread t takes its unit off the shelf
Decrements(t) == pc[t] = "bi_dec" /\ pc'[t] = "bi_unlock"

\* C24: buyItem decrements while it holds the store mutex and the slot, as
\* it is at that moment, is carried, in stock and within the budget at the
\* current price, discounts and shipping cost; the decrement takes exactly
\* one unit of that slot.
C24_DecrementUnderPredicate ==
    [][\A t \in Buyers :
          Decrements(t) =>
              /\ mtx = t
              /\ inventory[op[t].id].valid
              /\ CanBuy(inventory[op[t].id], op[t].budget)
              /\ inventory' = [inventory EXCEPT ![op[t].id].quantity = @ - 1]]_vars

\* ---------------------------------------------------------------------
\* the slots the order of thread t asks for
Requested(t) == Range(FilterIds(op[t].ids))

\* the orders of t and u are both under way and ask for no slot in common
DisjointOrders(t, u) ==
    /\ t # u
    /\ InBuyMany(t) /\ InBuyMany(u)
    /\ Requested(t) \cap Requested(u) = {}

\* C25: of two orders that ask for no slot in common neither ever waits for
\* an item mutex the other holds, and neither holds a mutex of a slot it did
\* not ask for; both can hold all their item mutexes at the same time.
C25_DisjointOrdersInParallel ==
    \A t, u \in Buyers :
        DisjointOrders(t, u) =>
            /\ HeldItems(t) \subseteq Requested(t)
            /\ pc[t] = "bm_lock" => item_mtx[loc[t].ids[loc[t].i]] # u

\* two orders for different slots verify at the same time, each holding
\* every mutex it asked for
C25_Witness ==
    \E t, u \in Buyers :
        /\ DisjointOrders(t, u)
        /\ pc[t] = "bm_check" /\ HeldItems(t) = Requested(t)
        /\ pc[u] \in {"bm_check", "bm_commit"} /\ HeldItems(u) = Requested(u)

\* ---------------------------------------------------------------------
\* the cost of slot i to the order of thread t, at the snapshotted parameters
CostToOrder(t, i) ==
    ScaledCost(inventory[i].price, inventory[i].discount,
               loc[t].discSnap, loc[t].shipSnap)

RECURSIVE TotalOver(_, _)
TotalOver(t, S) ==
    IF S = {} THEN 0
    ELSE LET i == CHOOSE x \in S : TRUE IN CostToOrder(t, i) + TotalOver(t, S \ {i})

\* the order of thread t can be served, as a set of slots
SetOk(t) ==
    /\ \A i \in Requested(t) :
          /\ inventory[i].valid
          /\ inventory[i].quantity > 0
          /\ CostToOrder(t, i) >= 0
    /\ TotalOver(t, Requested(t)) <= op[t].budget * Scale

\* C26: buyManyItems treats the ids it is given as a set: the mutexes it
\* takes depend on the set alone, it never requests a mutex it holds, an id
\* listed twice counts once in the total, and an order that succeeds
\* decrements each slot of the set by exactly one, whatever the listing.
C26_IdsAsSet ==
    \A t \in Buyers :
        /\ InBuyMany(t) =>
              /\ loc[t].ids = SortSet(Requested(t))
              /\ pc[t] = "bm_lock" => item_mtx[loc[t].ids[loc[t].i]] # t
        /\ JustChecked(t) => (loc[t].ok <=> SetOk(t))
        /\ (IsOrder(t) /\ pc[t] = "idle") =>
              \A i \in Ids :
                  hist[t].dec[i] = IF loc[t].ok /\ i \in Requested(t) THEN 1 ELSE 0

\* an order that lists one slot twice has committed and taken one unit of it
C26_Witness ==
    \E t \in Buyers :
        /\ IsOrder(t) /\ pc[t] = "idle" /\ ret[t].how = "commit"
        /\ Len(FilterIds(op[t].ids)) > Cardinality(Requested(t))
        /\ \A i \in Requested(t) : hist[t].dec[i] = 1

\* ---------------------------------------------------------------------
\* the scheduler runs every producer and every consumer that can take a step
FairSpecQueue ==
    /\ SpecQueue
    /\ \A g \in Gens : WF_vars(Generator(g))
    /\ \A w \in Buyers : WF_vars(QueueConsumer(w))

\* consumer w is blocked in the scond_wait of dequeue
BlockedInDequeue(w) == worker[w].pc = "dq_wait"

\* C27: one signal per enqueue is enough: a consumer blocked in dequeue
\* while its queue holds a task gets out of the wait or sees the queue
\* drained by others, and an enqueue takes at most one sleeper out of
\* not_empty.
C27_SignalSuffices ==
    /\ \A w \in Buyers :
           (BlockedInDequeue(w) /\ q[QueueOf(w)] # <<>>)
               ~> (~BlockedInDequeue(w) \/ q[QueueOf(w)] = <<>>)
    /\ [][\A Q \in Queues :
            q'[Q] # q[Q] /\ Len(q'[Q]) > Len(q[Q]) =>
                /\ Cardinality(not_empty[Q] \ not_empty'[Q]) <= 1
                /\ not_empty[Q] # {} => not_empty'[Q] # not_empty[Q]]_vars

\* both consumers sleep in dequeue when a producer enqueues a task: one of
\* them is signalled, the other sleeps on while the queue holds the task
C27_Witness ==
    \E w, x \in Buyers :
        /\ w # x
        /\ BlockedInDequeue(w) /\ w \in not_empty[QueueOf(w)]
        /\ BlockedInDequeue(x) /\ x \notin not_empty[QueueOf(x)]
        /\ q[QueueOf(w)] # <<>>

\* ---------------------------------------------------------------------
\* the order of thread t has taken its snapshot
PastSnapshot(t) ==
    pc[t] \in {"bm_gunlock", "bm_lock", "bm_check", "bm_commit", "bm_unlock"}

\* what the verification of the order of t finds with the parameters given
Verdict(t, ship, sdisc) == OrderOk(inventory, loc[t].ids, ship, sdisc, op[t].budget)

\* C28: an order reads shippingCost and storeDiscount once, holding the
\* global mutex and no item mutex; it keeps that snapshot to its end and
\* verifies with it, whatever the setters have stored since; and past the
\* snapshot it holds no global mutex that a setter would have to wait for.
C28_SnapshotThenCommit ==
    /\ [][\A t \in Buyers :
            /\ (pc[t] = "bm_snap" /\ pc'[t] # pc[t]) =>
                  /\ global_mtx = t /\ HeldItems(t) = {}
                  /\ loc'[t].shipSnap = shippingCost
                  /\ loc'[t].discSnap = storeDiscount
            /\ (PastSnapshot(t) /\ op'[t] = op[t]) =>
                  /\ loc'[t].shipSnap = loc[t].shipSnap
                  /\ loc'[t].discSnap = loc[t].discSnap
            /\ (pc[t] = "bm_check" /\ pc'[t] # pc[t]) =>
                  loc'[t].ok = Verdict(t, loc[t].shipSnap, loc[t].discSnap)]_vars
    /\ [](\A t \in Buyers :
            pc[t] \in {"bm_lock", "bm_check", "bm_commit", "bm_unlock"}
                => global_mtx # t)

\* an order is about to commit on its snapshot although a setter has since
\* stored a parameter with which the verification would have failed
C28_Witness ==
    \E t \in Buyers :
        /\ JustChecked(t) /\ pc[t] = "bm_commit" /\ loc[t].ok
        /\ ~Verdict(t, shippingCost, storeDiscount)

\* ---------------------------------------------------------------------
\* thread x has been created; the driver's join of x has returned
Created(x) == IF x \in Gens THEN gen[x].pc # "unborn" ELSE worker[x].pc # "unborn"
Joined(x) ==
    \E k \in 1..Len(DriverPlan) :
        k < driver /\ DriverPlan[k] = [do |-> "join", who |-> x]

\* the driver has destroyed the simulation
SimDeleted ==
    \E k \in 1..Len(DriverPlan) : k < driver /\ DriverPlan[k].do = "delete"

\* C29: the driver has created every worker before it creates a generator,
\* has joined both generators before it joins a worker, joins only threads
\* that have exited, and destroys the simulation only when every generator
\* and every worker has exited.
C29_DriverOrdering ==
    /\ \A g \in Gens : Created(g) => \A w \in Threads : Created(w)
    /\ \A w \in Threads : Joined(w) => \A g \in Gens : Joined(g)
    /\ \A x \in Gens \cup Threads : Joined(x) => Exited(x)
    /\ (SimDeleted \/ DriverAt("delete")) => \A x \in Gens \cup Threads : Exited(x)

\* both generators have exited and been joined; the driver waits in the
\* join of a worker that is still running
C29_Witness ==
    /\ DriverAt("join")
    /\ DriverPlan[driver].who \in Threads
    /\ ~Exited(DriverPlan[driver].who)
    /\ \A g \in Gens : Joined(g)
    /\ \E w \in Threads : Exited(w)

\* ---------------------------------------------------------------------
\* the step in which worker w dequeues a stop sentinel
TakesStop(w) == worker[w].pc = "dq_check" /\ worker'[w].pc = "exited"

\* the stop sentinels dequeued from queue Q so far
StopsTaken(Q) == Len(SelectSeq(log[Q].deq, LAMBDA x : x.kind = "stop"))

\* C30: a worker that dequeues a stop sentinel leaves a queue without real
\* tasks, makes no call of the store for it and exits; every worker that
\* has exited took one sentinel, its last dequeue, and no other worker took
\* any; a pool whose workers have all exited leaves its queue empty.
C30_SentinelDiscipline ==
    /\ [][\A w \in Threads :
            TakesStop(w) =>
                /\ \A k \in 1..Len(q[QueueOf(w)]) : q[QueueOf(w)][k].kind = "stop"
                /\ UNCHANGED <<storeVars, lockVars, cvVars, threadVars, executed>>]_vars
    /\ [](\A Q \in Queues :
            /\ StopsTaken(Q) = Cardinality({w \in WorkersOf(Q) : Exited(w)})
            /\ \A w \in WorkersOf(Q) : Exited(w) <=> worker[w].task = "stop"
            /\ (\A w \in WorkersOf(Q) : Exited(w)) => q[Q] = <<>>)

\* one customer worker has taken its sentinel and exited while the other
\* one's sentinel is still queued, every real task of the queue executed
C30_Witness ==
    LET Q == "customerTasks" IN
    /\ \E w \in WorkersOf(Q) : Exited(w)
    /\ q[Q] # <<>>
    /\ executed[Q] = maxTasks

\* --------- SpecLeak: every exit path of the store and of the task queue
\* A store of either mode and the two pools at work, each fed by its own
\* generator; of the two customer threads one drains customerTasks and the
\* other asks for its size, or whether it is empty, again and again.  The
\* handler of a customer's task is a purchase of
\* the kind the store's mode allows (in range or not, affordable or not);
\* the handler of the supplier's task removes or restocks slot 0 or sets the
\* shipping cost, up or down.
InitLeak ==
    /\ fineMode \in BOOLEAN
    /\ InitStore(fineMode, OutOfStockAndDear, 5, 0)
    /\ pc = [t \in Threads |-> "idle"]
    /\ op = [t \in Threads |-> NoOp]
    /\ loc = [t \in Threads |-> NoLoc]
    /\ calls = [t \in Threads |-> 0]
    /\ hist = [t \in Threads |-> NoHist]
    /\ ret = [t \in Threads |-> Result("none", 0)]
    /\ q = [Q \in Queues |-> <<>>]
    /\ qmtx = [Q \in Queues |-> NoThread]
    /\ not_empty = [Q \in Queues |-> {}]
    /\ worker = [w \in Threads |-> [pc |-> "dq_lock", task |-> NoTask]]
    /\ gen = [g \in Gens |-> [NoGen(OwnQueue(g)) EXCEPT !.pc = "enq_lock"]]
    /\ driver = 0
    /\ executed = [Q \in Queues |-> 0]
    /\ log = [Q \in Queues |-> NoLog]

LeakConsumer(w) ==
    \/ QueueSteps(w)
    \/ fineMode /\ CallBuyManyItems(w, {<<1>>, <<1, 0>>, <<1, INVENTORY_SIZE>>}, {0, 50})
    \/ ~fineMode /\ CallBuyItem(w, {0, 1, INVENTORY_SIZE}, {30})
    \/ BuyItemSteps(w)
    \/ BuyManySteps(w)

LeakSupplier(t) ==
    \/ QueueSteps(t)
    \/ CallRemoveItem(t, {0})
    \/ CallAddStock(t, {0}, {1})
    \/ CallSetShippingCost(t, {0, 10})
    \/ ItemLock(t)
    \/ ItemTest(t)
    \/ RemoveItemBody(t)
    \/ AddStockBody(t)
    \/ ItemUnlock(t)
    \/ CoarseSetterSteps(t)
    \/ FineSetterSteps(t)

NextLeak ==
    \/ \E g \in Gens : Generator(g)
    \/ LeakConsumer("customer1")
    \/ SizeLock("customer2")
    \/ SizeReturn("customer2")
    \/ EmptyLock("customer2")
    \/ EmptyReturn("customer2")
    \/ LeakSupplier(AdminT)

SpecLeak == InitLeak /\ [][NextLeak]_vars

\* the mutexes of the store that thread t holds
StoreLocksOf(t) ==
    (IF mtx = t THEN {"mtx"} ELSE {})
      \cup (IF global_mtx = t THEN {"global_mtx"} ELSE {})
      \cup {i \in Ids : item_mtx[i] = t}

\* thread w is inside enqueue, dequeue, size or empty, past its smutex_lock
InQueueSection(w) ==
    \/ w \in Threads /\ worker[w].pc \in {"dq_check", "sz_cs", "em_cs"}
    \/ w \in Gens /\ gen[w].pc = "enq_push"

\* C31: a thread that is in no operation of the store holds no mutex of the
\* store, and a thread that is in no operation of a task queue (or asleep in
\* dequeue's scond_wait) holds no queue's mutex: every operation, on each of
\* its exit paths, has returned with nothing locked.
C31_NoLockLeaked ==
    /\ \A t \in Threads : pc[t] = "idle" => StoreLocksOf(t) = {}
    /\ \A Q \in Queues : \A w \in Threads \cup Gens :
           qmtx[Q] = w => InQueueSection(w)

\* a customer has come back from buyItem that saw its item removed while it
\* waited, the other one has been told the queue's size, and the supplier is
\* back too
C31_Witness ==
    /\ \E t \in Buyers :
          /\ pc[t] = "idle" /\ ret[t] = Result("removed", 0) /\ hist[t].orphaned
          /\ \E u \in Buyers \ {t} : ret[u].how = "size" /\ worker[u].pc = "dq_lock"
    /\ op[AdminT].name = "removeItem" /\ Exited(AdminT)

\* ------------------- SpecData: the calls that write a slot's quantity
\* A store of either mode with only its last slot carried.  Each customer
\* makes one purchase of the kind the mode allows; the supplier makes two
\* calls out of addItem, addStock and removeItem, with ids in and out of
\* range and quantities and counts below, at and above zero.
InitData ==
    /\ fineMode \in BOOLEAN
    /\ InitStore(fineMode, OnlyLastCarried, 5, 0)
    /\ InitThreads(SupplierTwice)

DataCustomer(t) ==
    \/ fineMode /\ CallBuyManyItems(t, {<<1>>, <<1, 0>>}, {50})
    \/ ~fineMode /\ CallBuyItem(t, {0, 1}, {50})
    \/ BuyItemSteps(t)
    \/ BuyManySteps(t)

DataSupplier(t) ==
    \/ CallAddItem(t, {-1, 0}, {-1, 0, 1}, {10}, {0})
    \/ CallAddStock(t, {1, INVENTORY_SIZE}, {-1, 0, 1})
    \/ CallRemoveItem(t, {1})
    \/ ItemLock(t)
    \/ ItemTest(t)
    \/ AddItemBody(t)
    \/ AddStockBody(t)
    \/ RemoveItemBody(t)
    \/ ItemUnlock(t)

NextData ==
    \/ \E t \in Buyers : DataCustomer(t)
    \/ DataSupplier(AdminT)

SpecData == InitData /\ [][NextData]_vars

\* C32: every carried slot has a quantity of zero or more, whatever calls of
\* addItem, addStock, removeItem, buyItem and buyManyItems were made, with
\* whatever integer arguments and however interleaved, in both modes.
C32_QuantityNonNegative ==
    \A i \in Ids : inventory[i].valid => inventory[i].quantity >= 0

====
